---------------------------- MODULE Spec2Model ----------------------------
(***************************************************************************)
(* Brief-to-plan derivation pipeline of claude_planner:                    *)
(*   - DevelopmentPlan cross-entity validation (models.py)                 *)
(*   - generate_tech_stack (generator/tech_stack_gen.py)                   *)
(*   - generate_phases (generator/phase_gen.py)                            *)
(*   - select_template (templates/selector.py)                             *)
(* Each component has its own specification over the shared variables; a   *)
(* specification leaves the variables of the other components untouched.   *)
(***************************************************************************)
EXTENDS Integers, Sequences, FiniteSets, TLC

VARIABLES
    plan,               \* DevelopmentPlan: its subtasks in phase/task/subtask order
    errors,             \* what the last validation of the current plan returned
    must_use_tech,      \* ProjectBrief.must_use_tech
    cannot_use_tech,    \* ProjectBrief.cannot_use_tech
    template_defaults,  \* template_config["default_tech_stack"]
    tech_result,        \* outcome of generate_tech_stack
    default_phases,     \* template_config["default_phases"]
    phases_result,      \* outcome of generate_phases
    templates,          \* the installed template directories and their configs
    project_type,       \* argument of select_template
    select_result,      \* outcome of select_template
    basic_info,         \* the basic_info dictionary handed to convert_to_project_brief
    convert_result,     \* outcome of convert_to_project_brief
    field_lines,        \* the lines of the text handed to extract_field_value
    queried_name,         \* argument field_name of extract_field_value
    field_result,       \* outcome of extract_field_value
    info_lines,         \* "Basic Information": the field lines before the Project Type line
    type_segments,      \* "Basic Information": the segments of the Project Type line
    info_result,        \* outcome of extract_basic_info
    doc_lines,          \* the lines of the document handed to parse_markdown_content
    parse_result,       \* outcome of parse_markdown_content
    dev_plan,           \* a whole DevelopmentPlan: name, tech stack, phases, tasks, subtasks
    plan_errors,        \* what dev_plan.validate() returned for the current plan
    plan_is_valid,      \* what dev_plan.is_valid() returned for the current plan
    project_brief,      \* the ProjectBrief handed to generate_plan
    installation,       \* the template directories generate_plan finds, with their configs
    generate_result,     \* outcome of generate_plan
    returned_errors,    \* what validating the plan generate_plan returned gave
    quality_lines,       \* the lines of the quality section handed to extract_quality_requirements
    quality_section,     \* the heading the quality lines stand under
    quality_result       \* outcome of extract_quality_requirements

vars == <<plan, errors, must_use_tech, cannot_use_tech, template_defaults,
          tech_result, default_phases, phases_result, templates, project_type,
          select_result, basic_info, convert_result,
          field_lines, queried_name, field_result,
          info_lines, type_segments, info_result, doc_lines, parse_result,
          dev_plan, plan_errors, plan_is_valid,
          project_brief, installation, generate_result, returned_errors,
          quality_lines, quality_section, quality_result>>

planVars   == <<plan, errors>>
techVars   == <<must_use_tech, cannot_use_tech, template_defaults, tech_result>>
phaseVars  == <<default_phases, phases_result>>
selectVars == <<templates, project_type, select_result>>
convertVars == <<basic_info, convert_result>>
fieldVars  == <<field_lines, queried_name, field_result>>
infoVars   == <<info_lines, type_segments, info_result>>
markdownVars == <<doc_lines, parse_result>>
validateVars == <<dev_plan, plan_errors, plan_is_valid>>
generateVars == <<project_brief, installation, generate_result, returned_errors>>
qualityVars == <<quality_lines, quality_section, quality_result>>
inputVars  == <<convertVars, fieldVars, infoVars, markdownVars, validateVars, generateVars, qualityVars>>

\* what the actions of one component leave unchanged
coreVars     == <<planVars, techVars, phaseVars, selectVars>>
convertFrame == <<coreVars, fieldVars, infoVars, markdownVars, validateVars, generateVars, qualityVars>>
fieldFrame   == <<coreVars, convertVars, infoVars, markdownVars, validateVars, generateVars, qualityVars>>
infoFrame    == <<coreVars, convertVars, fieldVars, markdownVars, validateVars, generateVars, qualityVars>>
markdownFrame == <<coreVars, convertVars, fieldVars, infoVars, validateVars, generateVars, qualityVars>>
validateFrame == <<coreVars, convertVars, fieldVars, infoVars, markdownVars, generateVars, qualityVars>>
generateFrame == <<coreVars, convertVars, fieldVars, infoVars, markdownVars, validateVars, qualityVars>>
qualityFrame == <<coreVars, convertVars, fieldVars, infoVars, markdownVars, validateVars, generateVars>>

\* "not called yet" marker of the result variables
NoResult == [kind |-> "none"]

(***************************************************************************)
(* Generic helpers on sequences                                            *)
(***************************************************************************)
Range(s) == {s[i] : i \in 1..Len(s)}

SeqsUpTo(S, n) == UNION {[1..k -> S] : k \in 0..n}

RECURSIVE SumLen(_, _)
SumLen(seqs, i) == IF i > Len(seqs) THEN 0 ELSE Len(seqs[i]) + SumLen(seqs, i + 1)

(***************************************************************************)
(* DevelopmentPlan: prerequisite and circular-dependency validation        *)
(***************************************************************************)
\* bounds of the plan model
MaxSubtasks == 3
MaxPrereqEntries == 3

\* subtask ids used by the model, in the order in which a plan first uses them
\* (the validators only compare ids, so which unused id comes next is immaterial)
IdOrder == <<"0.1.1", "0.1.2", "1.1.1">>
SubtaskIds == {IdOrder[k] : k \in 1..Len(IdOrder)}

\* set(subtask.id for every subtask of every task of every phase)
get_all_subtask_ids(p) == {p[i].id : i \in 1..Len(p)}

\* variant that reports a missing id once per subtask, skipping repeated entries
RECURSIVE prereq_messages_dedup(_, _, _, _)
prereq_messages_dedup(p, all_ids, i, j) ==
    IF i > Len(p) THEN <<>>
    ELSE IF j > Len(p[i].prerequisites) THEN prereq_messages_dedup(p, all_ids, i + 1, 1)
    ELSE LET prereq == p[i].prerequisites[j]
             rest == prereq_messages_dedup(p, all_ids, i, j + 1)
         IN IF prereq \notin all_ids
               /\ \A k \in 1..(j - 1) : p[i].prerequisites[k] # prereq
            THEN <<[kind |-> "dangling", subtask |-> p[i].id, prereq |-> prereq]>> \o rest
            ELSE rest

\* one message per (subtask, prerequisite entry) whose prerequisite is unknown,
\* in subtask order and, within a subtask, in prerequisite-list order
RECURSIVE prereq_messages(_, _, _, _)
prereq_messages(p, all_ids, i, j) ==
    IF i > Len(p) THEN <<>>
    ELSE IF j > Len(p[i].prerequisites) THEN prereq_messages(p, all_ids, i + 1, 1)
    ELSE LET prereq == p[i].prerequisites[j]
             rest == prereq_messages(p, all_ids, i, j + 1)
         IN IF prereq \notin all_ids
            THEN <<[kind |-> "dangling", subtask |-> p[i].id, prereq |-> prereq]>> \o rest
            ELSE rest

validate_prerequisites(p) == prereq_messages(p, get_all_subtask_ids(p), 1, 1)

\* prereq_graph: a dict, so a repeated id keeps its first position in the
\* iteration order and takes the prerequisites of the last subtask carrying it
RECURSIVE graph_keys(_, _)
graph_keys(p, i) ==
    IF i > Len(p) THEN <<>>
    ELSE LET rest == graph_keys(p, i + 1)
         IN <<p[i].id>> \o SelectSeq(rest, LAMBDA k : k # p[i].id)

graph_value(p, id) ==
    LET last == CHOOSE i \in 1..Len(p) :
                    /\ p[i].id = id
                    /\ \A j \in (i + 1)..Len(p) : p[j].id # id
    IN p[last].prerequisites

\* prereq_graph.get(node, [])
graph_get(p, node) ==
    IF node \in get_all_subtask_ids(p) THEN graph_value(p, node) ELSE <<>>

\* has_cycle(node) with the two closure sets passed in and handed back
RECURSIVE has_cycle(_, _, _, _), scan_neighbors(_, _, _, _, _, _)
has_cycle(p, node, visited, rec_stack) ==
    LET r == scan_neighbors(p, node, graph_get(p, node), 1,
                            visited \cup {node}, rec_stack \cup {node})
    IN IF r.found THEN r
       ELSE [found |-> FALSE, visited |-> r.visited,
             rec_stack |-> r.rec_stack \ {node}]

\* variant that takes every neighbor seen before for a neighbor on the stack
RECURSIVE scan_neighbors_seen_before(_, _, _, _, _, _)
scan_neighbors_seen_before(p, node, nbrs, i, visited, rec_stack) ==
    IF i > Len(nbrs)
    THEN [found |-> FALSE, visited |-> visited, rec_stack |-> rec_stack]
    ELSE LET neighbor == nbrs[i] IN
         IF neighbor \notin visited
         THEN LET r == has_cycle(p, neighbor, visited, rec_stack)
              IN IF r.found THEN r
                 ELSE scan_neighbors_seen_before(p, node, nbrs, i + 1, r.visited, r.rec_stack)
         ELSE [found |-> TRUE, visited |-> visited, rec_stack |-> rec_stack]

scan_neighbors(p, node, nbrs, i, visited, rec_stack) ==
    IF i > Len(nbrs)
    THEN [found |-> FALSE, visited |-> visited, rec_stack |-> rec_stack]
    ELSE LET neighbor == nbrs[i] IN
         IF neighbor \notin visited
         THEN LET r == has_cycle(p, neighbor, visited, rec_stack)
              IN IF r.found THEN r
                 ELSE scan_neighbors(p, node, nbrs, i + 1, r.visited, r.rec_stack)
         ELSE IF neighbor \in rec_stack
         THEN [found |-> TRUE, visited |-> visited, rec_stack |-> rec_stack]
         ELSE scan_neighbors(p, node, nbrs, i + 1, visited, rec_stack)

\* variant of the loop that starts the search from the first key only
cycle_messages_first_only(p, keys, i, visited, rec_stack) ==
    IF Len(keys) = 0 THEN <<>>
    ELSE IF has_cycle(p, keys[1], {}, {}).found
    THEN <<[kind |-> "cycle", subtask |-> keys[1]]>>
    ELSE <<>>

\* variant of the loop that appends the message outside the has_cycle test
RECURSIVE cycle_messages_report_all(_, _, _, _, _)
cycle_messages_report_all(p, keys, i, visited, rec_stack) ==
    IF i > Len(keys) THEN <<>>
    ELSE IF keys[i] \in visited
    THEN cycle_messages_report_all(p, keys, i + 1, visited, rec_stack)
    ELSE LET r == has_cycle(p, keys[i], visited, rec_stack)
         IN <<[kind |-> "cycle", subtask |-> keys[i]]>>
            \o cycle_messages_report_all(p, keys, i + 1, r.visited, r.rec_stack)

\* the loop over prereq_graph's keys
RECURSIVE cycle_messages(_, _, _, _, _)
cycle_messages(p, keys, i, visited, rec_stack) ==
    IF i > Len(keys) THEN <<>>
    ELSE IF keys[i] \in visited
    THEN cycle_messages(p, keys, i + 1, visited, rec_stack)
    ELSE LET r == has_cycle(p, keys[i], visited, rec_stack)
             rest == cycle_messages(p, keys, i + 1, r.visited, r.rec_stack)
         IN IF r.found
            THEN <<[kind |-> "cycle", subtask |-> keys[i]]>> \o rest
            ELSE rest

validate_circular_dependencies(p) ==
    cycle_messages(p, graph_keys(p, 1), 1, {}, {})

\* task.subtasks.append(Subtask(id=..., prerequisites=[]))
AppendSubtask(id) ==
    /\ Len(plan) < MaxSubtasks
    /\ \E k \in 1..Len(IdOrder) :
          /\ IdOrder[k] = id
          /\ k <= Cardinality(get_all_subtask_ids(plan)) + 1
    /\ plan' = Append(plan, [id |-> id, prerequisites |-> <<>>])
    /\ errors' = NoResult
    /\ UNCHANGED <<techVars, phaseVars, selectVars, inputVars>>

\* subtask.prerequisites.append(prereq)
AddPrerequisite(i, prereq) ==
    /\ i \in 1..Len(plan)
    /\ SumLen([k \in 1..Len(plan) |-> plan[k].prerequisites], 1) < MaxPrereqEntries
    /\ plan' = [plan EXCEPT ![i].prerequisites = Append(@, prereq)]
    /\ errors' = NoResult
    /\ UNCHANGED <<techVars, phaseVars, selectVars, inputVars>>

\* the cross-model part of DevelopmentPlan.validate()
Validate ==
    /\ errors = NoResult
    /\ errors' = [kind |-> "errors",
                  prereq |-> validate_prerequisites(plan),
                  cycle |-> validate_circular_dependencies(plan)]
    /\ UNCHANGED <<plan, techVars, phaseVars, selectVars, inputVars>>

(***************************************************************************)
(* Properties of the plan validators                                       *)
(***************************************************************************)
Validated == errors.kind = "errors"

DistinctIds(p) == \A i, j \in 1..Len(p) : i # j => p[i].id # p[j].id

\* the prerequisite relation: an edge from each subtask id to every id in its
\* prerequisites
Edges(p) ==
    UNION {{<<p[i].id, q>> : q \in Range(p[i].prerequisites)} : i \in 1..Len(p)}

Successors(p, S) == {e[2] : e \in {d \in Edges(p) : d[1] \in S}}

\* ids reachable from n by one or more edges
RECURSIVE ReachWithin(_, _, _)
ReachWithin(p, S, k) ==
    IF k = 0 THEN {}
    ELSE LET next == Successors(p, S) IN next \cup ReachWithin(p, next, k - 1)

ReachPlus(p, n) == ReachWithin(p, {n}, Cardinality(SubtaskIds) + 1)

OnCycle(p, n) == n \in ReachPlus(p, n)

HasDirectedCycle(p) == \E n \in SubtaskIds : OnCycle(p, n)

NamedInCycleMessages == {errors.cycle[k].subtask : k \in 1..Len(errors.cycle)}

CountWhere(seq, Test(_)) == Cardinality({k \in 1..Len(seq) : Test(seq[k])})

\* C1: for a plan with distinct subtask ids, in whatever order the subtasks are
\* listed, validate_circular_dependencies returns at least one message exactly
\* when the prerequisite relation has a directed cycle (self-references and
\* cycles outside the first subtask's component included).
C1_CycleReportedIffCycleExists ==
    (Validated /\ DistinctIds(plan))
        => ((Len(errors.cycle) > 0) <=> HasDirectedCycle(plan))

\* C1 witness: a validated plan with distinct ids whose first subtask has no
\* prerequisites and reaches no cycle, while two later subtasks form a cycle,
\* and a message was returned.
C1_Witness ==
    /\ Validated /\ DistinctIds(plan) /\ Len(plan) = 3
    /\ plan[1].prerequisites = <<>>
    /\ OnCycle(plan, plan[2].id) /\ plan[1].id \notin ReachPlus(plan, plan[2].id)
    /\ Len(errors.cycle) > 0

\* C2 as stated: for each subtask, exactly one message per prerequisite id of
\* the subtask that is missing from the plan's id set, and none for an id that
\* exists (ids taken distinct so that a message identifies its subtask).
C2_OneMessagePerMissingId ==
    (Validated /\ DistinctIds(plan)) =>
        \A i \in 1..Len(plan) : \A q \in SubtaskIds :
            LET n == CountWhere(errors.prereq,
                        LAMBDA m : m.subtask = plan[i].id /\ m.prereq = q)
            IN IF q \in Range(plan[i].prerequisites) /\ q \notin get_all_subtask_ids(plan)
               THEN n = 1 ELSE n = 0

\* number of entries of subtask lists carrying id `id` that equal q
RECURSIVE OccurrencesFor(_, _, _, _)
OccurrencesFor(p, id, q, i) ==
    IF i > Len(p) THEN 0
    ELSE (IF p[i].id = id
          THEN Cardinality({j \in 1..Len(p[i].prerequisites) : p[i].prerequisites[j] = q})
          ELSE 0) + OccurrencesFor(p, id, q, i + 1)

\* C2 amended: validate_prerequisites returns one message per entry (list
\* position) of a subtask's prerequisites whose id is missing from the plan's
\* id set, so a missing id listed twice is reported twice; it returns no
\* message for an id that exists anywhere in the plan.
C2_OneMessagePerMissingEntry ==
    Validated =>
        /\ \A k \in 1..Len(errors.prereq) :
              errors.prereq[k].prereq \notin get_all_subtask_ids(plan)
        /\ \A id \in SubtaskIds : \A q \in SubtaskIds \ get_all_subtask_ids(plan) :
              CountWhere(errors.prereq, LAMBDA m : m.subtask = id /\ m.prereq = q)
                  = OccurrencesFor(plan, id, q, 1)

\* C2 witness: a validated plan in which one subtask lists the same missing
\* id twice and another prerequisite exists, with two messages returned.
C2_Witness ==
    /\ Validated
    /\ \E i \in 1..Len(plan) :
          /\ Len(plan[i].prerequisites) >= 2
          /\ plan[i].prerequisites[1] = plan[i].prerequisites[2]
          /\ plan[i].prerequisites[1] \notin get_all_subtask_ids(plan)
    /\ \E i \in 1..Len(plan) :
          Range(plan[i].prerequisites) \cap get_all_subtask_ids(plan) # {}
    /\ Len(errors.prereq) = 2

UpperLetters == <<"A", "B", "C", "D", "E", "F", "G", "H", "I", "J", "K", "L", "M", "N", "O", "P", "Q", "R", "S", "T", "U", "V", "W", "X", "Y", "Z">>
LowerLetters == <<"a", "b", "c", "d", "e", "f", "g", "h", "i", "j", "k", "l", "m", "n", "o", "p", "q", "r", "s", "t", "u", "v", "w", "x", "y", "z">>
Digits == <<"0", "1", "2", "3", "4", "5", "6", "7", "8", "9">>

\* one character of str.lower()
char_lower(c) ==
    IF \E k \in 1..Len(UpperLetters) : UpperLetters[k] = c
    THEN LowerLetters[CHOOSE k \in 1..Len(UpperLetters) : UpperLetters[k] = c]
    ELSE c

\* str.lower()
str_lower(s) == [i \in 1..Len(s) |-> char_lower(s[i])]

\* a in b, for two strings
str_in(a, b) ==
    \E off \in 0..(Len(b) - Len(a)) : \A k \in 1..Len(a) : b[off + k] = a[k]

\* str(n) for n >= 0
RECURSIVE str_int(_)
str_int(n) ==
    IF n < 10 THEN <<Digits[n + 1]>>
    ELSE str_int(n \div 10) \o <<Digits[(n % 10) + 1]>>

\* a dict as the sequence of its <<key, value>> items in insertion order
dict_has(d, key) == \E k \in 1..Len(d) : d[k][1] = key

dict_get(d, key) == d[CHOOSE k \in 1..Len(d) : d[k][1] = key][2]

dict_set(d, key, value) ==
    IF dict_has(d, key)
    THEN [k \in 1..Len(d) |-> IF d[k][1] = key THEN <<key, value>> ELSE d[k]]
    ELSE Append(d, <<key, value>>)

\* string literals of tech_stack_gen.py
S_Python311 == <<"P", "y", "t", "h", "o", "n", " ", "3", ".", "1", "1", "+">>
S_python == <<"p", "y", "t", "h", "o", "n">>
S_javascript == <<"j", "a", "v", "a", "s", "c", "r", "i", "p", "t">>
S_typescript == <<"t", "y", "p", "e", "s", "c", "r", "i", "p", "t">>
S_pytest == <<"p", "y", "t", "e", "s", "t">>
S_jest == <<"j", "e", "s", "t">>
S_ruff == <<"r", "u", "f", "f">>
S_eslint == <<"e", "s", "l", "i", "n", "t">>
S_mypy == <<"m", "y", "p", "y">>
S_TypeScript == <<"T", "y", "p", "e", "S", "c", "r", "i", "p", "t">>
S_GitHubActions == <<"G", "i", "t", "H", "u", "b", " ", "A", "c", "t", "i", "o", "n", "s">>
S_cache == <<"c", "a", "c", "h", "e">>
S_packaging == <<"p", "a", "c", "k", "a", "g", "i", "n", "g">>
S_must_use_ == <<"m", "u", "s", "t", "_", "u", "s", "e", "_">>

\* ids from which a cycle of the prerequisite relation can be reached
ReachesCycle(p, n) == \E m \in {n} \cup ReachPlus(p, n) : OnCycle(p, m)

\* C23: every subtask id named in a message of validate_circular_dependencies
\* is part of a cycle of the prerequisite relation: it reaches itself by one
\* or more prerequisite edges.
C23_NamedIdIsOnCycle ==
    Validated => \A id \in NamedInCycleMessages : OnCycle(plan, id)

\* C24: every subtask id named in a message of validate_circular_dependencies
\* can reach a cycle of the prerequisite relation by prerequisite edges, also
\* when it is examined after an earlier cycle was found in the same call.
C24_NamedIdReachesCycle ==
    Validated => \A id \in NamedInCycleMessages : ReachesCycle(plan, id)

\* C24 witness: two subtasks, the first reported for its cycle; the second,
\* on no cycle itself, is reported because its prerequisite was left on the
\* recursion stack by the first search.
C24_Witness ==
    /\ Validated /\ Len(plan) = 2 /\ DistinctIds(plan)
    /\ Len(errors.cycle) = 2
    /\ OnCycle(plan, errors.cycle[1].subtask)
    /\ ~OnCycle(plan, errors.cycle[2].subtask)
    /\ errors.cycle[1].subtask \in Range(graph_get(plan, errors.cycle[2].subtask))

(***************************************************************************)
(* generate_tech_stack                                                     *)
(***************************************************************************)
\* bounds of the brief's constraint lists
MaxMustUse == 2
MaxCannotUse == 2

\* technology names used by the model
T_Go == <<"G", "o">>
T_FastAPI == <<"F", "a", "s", "t", "A", "P", "I">>
T_PostgreSQL == <<"P", "o", "s", "t", "g", "r", "e", "S", "Q", "L">>
T_Redis == <<"R", "e", "d", "i", "s">>
T_DockerAWS == <<"D", "o", "c", "k", "e", "r", " ", "+", " ", "A", "W", "S">>
T_setuptools == <<"s", "e", "t", "u", "p", "t", "o", "o", "l", "s">>
T_Docker == <<"D", "o", "c", "k", "e", "r">>
T_GO_upper == <<"G", "O">>
T_fastapi_lower == <<"f", "a", "s", "t", "a", "p", "i">>
T_redis_lower == <<"r", "e", "d", "i", "s">>
T_docker_lower == <<"d", "o", "c", "k", "e", "r">>
T_python311_lower == <<"p", "y", "t", "h", "o", "n", " ", "3", ".", "1", "1", "+">>

\* names a brief may require
MustUseNames == {T_Docker, T_Redis}

\* names a brief may exclude; a brief lists them once each, in this order
CannotUseCatalogue ==
    <<T_GO_upper, T_fastapi_lower, T_PostgreSQL, T_redis_lower, T_docker_lower,
      T_setuptools, T_python311_lower>>

\* marker of a key the template's default_tech_stack does not hold
Absent == <<"<absent>">>

DefaultKeys == {"language", "framework", "database", "cache", "deployment", "packaging"}

DefaultChoices ==
    [language : {Absent, <<>>, T_Go},
     framework : {Absent, T_FastAPI},
     database : {Absent, T_PostgreSQL},
     cache : {Absent, T_Redis},
     deployment : {Absent, T_DockerAWS},
     packaging : {Absent, T_setuptools}]

\* template_config.get("default_tech_stack", {})
defaults_of(choice) ==
    [key \in {k \in DefaultKeys : choice[k] # Absent} |-> choice[key]]

\* [tech.lower() for tech in ...]
lower_all(list) == [i \in 1..Len(list) |-> str_lower(list[i])]

\* variant of the conflict check that compares the names as written
conflicts_case_sensitive(must, cannot) == Range(must) \cap Range(cannot)

\* set(must_use) & set(cannot_use)
conflicts(must, cannot) == Range(lower_all(must)) \cap Range(lower_all(cannot))

\* variant of the constraint test that compares the default as written
not_blocked_as_written(value, cannot_lc) == value \notin Range(cannot_lc)

\* template_defaults[key].lower() not in cannot_use
not_blocked(value, cannot_lc) == str_lower(value) \notin Range(cannot_lc)

\* any(constraint in deployment_val.lower() for constraint in cannot_use)
deployment_blocked(value, cannot_lc) ==
    \E k \in 1..Len(cannot_lc) : str_in(cannot_lc[k], str_lower(value))

\* language, framework, database: the default, or "" when absent or blocked
default_field(defaults, key, cannot_lc) ==
    IF key \in DOMAIN defaults /\ not_blocked(defaults[key], cannot_lc)
    THEN defaults[key]
    ELSE <<>>

\* deployment: the default, or "" when absent or blocked by a substring
default_deployment(defaults, cannot_lc) ==
    IF "deployment" \in DOMAIN defaults
       /\ ~deployment_blocked(defaults["deployment"], cannot_lc)
    THEN defaults["deployment"]
    ELSE <<>>

\* cache, packaging: an additional_tools entry unless absent or blocked
default_tool(tools, defaults, key, name, cannot_lc) ==
    IF key \in DOMAIN defaults /\ not_blocked(defaults[key], cannot_lc)
    THEN dict_set(tools, name, defaults[key])
    ELSE tools

\* variant of the must-use loop that stores every item under one key
RECURSIVE add_must_use_one_key(_, _, _)
add_must_use_one_key(tools, must, i) ==
    IF i >= Len(must) THEN tools
    ELSE add_must_use_one_key(dict_set(tools, S_must_use_, must[i + 1]), must, i + 1)

\* for i, tech in enumerate(brief.must_use_tech): additional_tools[f"must_use_{i}"] = tech
RECURSIVE add_must_use(_, _, _)
\* variant that files the first must-use item under the 'cache' key
RECURSIVE add_must_use_as_cache(_, _, _)
add_must_use_as_cache(tools, must, i) ==
    IF i >= Len(must) THEN tools
    ELSE add_must_use_as_cache(
             dict_set(tools, IF i = 0 THEN S_cache ELSE S_must_use_ \o str_int(i),
                      must[i + 1]),
             must, i + 1)

add_must_use(tools, must, i) ==
    IF i >= Len(must) THEN tools
    ELSE add_must_use(dict_set(tools, S_must_use_ \o str_int(i), must[i + 1]),
                      must, i + 1)

\* variant without the language fallback
language_fallback_missing(language) == language

\* if not language: language = "Python 3.11+"
language_fallback(language) == IF language = <<>> THEN S_Python311 ELSE language

is_js(language) ==
    \/ str_in(S_javascript, str_lower(language))
    \/ str_in(S_typescript, str_lower(language))

testing_for(language) ==
    IF str_in(S_python, str_lower(language)) THEN S_pytest
    ELSE IF is_js(language) THEN S_jest ELSE <<>>

linting_for(language) ==
    IF str_in(S_python, str_lower(language)) THEN S_ruff
    ELSE IF is_js(language) THEN S_eslint ELSE <<>>

\* variant that gives every language of the JS/TS family a type checker
type_checking_for_js_family(language) ==
    IF str_in(S_python, str_lower(language)) THEN S_mypy
    ELSE IF is_js(language) THEN S_TypeScript ELSE <<>>

type_checking_for(language) ==
    IF str_in(S_python, str_lower(language)) THEN S_mypy
    ELSE IF str_in(S_typescript, str_lower(language)) THEN S_TypeScript ELSE <<>>

generate_tech_stack(must_use_in, cannot_use_in, defaults) ==
    LET cannot_use == lower_all(cannot_use_in)
        found == conflicts(must_use_in, cannot_use_in)
    IN IF found # {}
       THEN [kind |-> "ValueError", conflicts |-> found]
       ELSE LET language == language_fallback(default_field(defaults, "language", cannot_use))
                tools1 == default_tool(<<>>, defaults, "cache", S_cache, cannot_use)
                tools2 == default_tool(tools1, defaults, "packaging", S_packaging, cannot_use)
            IN [kind |-> "TechStack",
                language |-> language,
                framework |-> default_field(defaults, "framework", cannot_use),
                database |-> default_field(defaults, "database", cannot_use),
                testing |-> testing_for(language),
                linting |-> linting_for(language),
                type_checking |-> type_checking_for(language),
                deployment |-> default_deployment(defaults, cannot_use),
                ci_cd |-> S_GitHubActions,
                additional_tools |-> add_must_use(tools2, must_use_in, 0)]

\* brief.must_use_tech gets one more entry
AddMustUse(tech) ==
    /\ Len(must_use_tech) < MaxMustUse
    /\ must_use_tech' = Append(must_use_tech, tech)
    /\ tech_result' = NoResult
    /\ UNCHANGED <<cannot_use_tech, template_defaults, planVars, phaseVars, selectVars, inputVars>>

\* brief.cannot_use_tech gets the catalogue's k-th name as one more entry
AddCannotUse(k) ==
    /\ Len(cannot_use_tech) < MaxCannotUse
    /\ \A j \in 1..Len(cannot_use_tech) :
          \E before \in 1..(k - 1) : CannotUseCatalogue[before] = cannot_use_tech[j]
    /\ cannot_use_tech' = Append(cannot_use_tech, CannotUseCatalogue[k])
    /\ tech_result' = NoResult
    /\ UNCHANGED <<must_use_tech, template_defaults, planVars, phaseVars, selectVars, inputVars>>

\* stack = generate_tech_stack(brief)
GenerateTechStack ==
    /\ tech_result = NoResult
    /\ tech_result' = generate_tech_stack(must_use_tech, cannot_use_tech, template_defaults)
    /\ UNCHANGED <<must_use_tech, cannot_use_tech, template_defaults,
                   planVars, phaseVars, selectVars, inputVars>>

(***************************************************************************)
(* Properties of generate_tech_stack                                       *)
(***************************************************************************)
Generated == tech_result.kind # "none"

ReturnedStack == tech_result.kind = "TechStack"

\* the brief's cannot_use_tech entries in lowercase
CannotLower == {str_lower(cannot_use_tech[j]) : j \in 1..Len(cannot_use_tech)}

\* some must-use entry equals some cannot-use entry when both are lowercased
HasConflict ==
    \E i \in 1..Len(must_use_tech), j \in 1..Len(cannot_use_tech) :
        str_lower(must_use_tech[i]) = str_lower(cannot_use_tech[j])

DefaultBlocked(key) == str_lower(template_defaults[key]) \in CannotLower

StackField(key) ==
    CASE key = "language" -> tech_result.language
      [] key = "framework" -> tech_result.framework
      [] key = "database" -> tech_result.database

ToolName(key) == IF key = "cache" THEN S_cache ELSE S_packaging

\* framework, database, cache, packaging and deployment follow their default
\* unless it is blocked, and are unset when it is blocked
OtherDefaultsApplied ==
    /\ \A key \in {"framework", "database"} \cap DOMAIN template_defaults :
          IF DefaultBlocked(key)
          THEN StackField(key) = <<>>
          ELSE StackField(key) = template_defaults[key]
    /\ \A key \in {"cache", "packaging"} \cap DOMAIN template_defaults :
          IF DefaultBlocked(key)
          THEN ~dict_has(tech_result.additional_tools, ToolName(key))
          ELSE /\ dict_has(tech_result.additional_tools, ToolName(key))
               /\ dict_get(tech_result.additional_tools, ToolName(key))
                      = template_defaults[key]
    /\ "deployment" \in DOMAIN template_defaults =>
          IF \E c \in CannotLower : str_in(c, str_lower(template_defaults["deployment"]))
          THEN tech_result.deployment = <<>>
          ELSE tech_result.deployment = template_defaults["deployment"]

\* C4: whenever some must-use entry equals some cannot-use entry in lowercase,
\* generate_tech_stack raises the conflict error and returns no TechStack,
\* whatever the template defaults are.
C4_ConflictAlwaysFails ==
    (Generated /\ HasConflict) =>
        /\ tech_result.kind = "ValueError"
        /\ tech_result.conflicts # {}

\* C4 witness: generate_tech_stack was called on a brief whose must-use and
\* cannot-use entries agree only after lowercasing, with template defaults
\* present, and it raised.
C4_Witness ==
    /\ tech_result.kind = "ValueError"
    /\ Range(must_use_tech) \cap Range(cannot_use_tech) = {}
    /\ DOMAIN template_defaults = DefaultKeys

\* C5 as stated: every default among language, framework, database, cache and
\* packaging is applied unless blocked and the field stays unset when blocked;
\* deployment is applied unless a cannot-use entry is a substring of it.
C5_DefaultsAppliedOrUnset ==
    ReturnedStack =>
        /\ OtherDefaultsApplied
        /\ "language" \in DOMAIN template_defaults =>
              IF DefaultBlocked("language")
              THEN tech_result.language = <<>>
              ELSE tech_result.language = template_defaults["language"]

\* C5 amended: framework, database, cache and packaging defaults are applied
\* unless their lowercase form is a cannot-use entry, in which case the field
\* stays unset; deployment is applied unless a lowercased cannot-use entry is
\* a substring of its lowercase form; the language default is applied unless
\* it is blocked or empty, and then language is the fallback "Python 3.11+",
\* not unset.
C5_DefaultsAppliedLanguageFallsBack ==
    ReturnedStack =>
        /\ OtherDefaultsApplied
        /\ "language" \in DOMAIN template_defaults =>
              IF DefaultBlocked("language") \/ template_defaults["language"] = <<>>
              THEN tech_result.language = S_Python311
              ELSE tech_result.language = template_defaults["language"]

\* C5 witness: a TechStack was returned for a template holding all six
\* defaults, of which the language and the deployment are blocked (the
\* deployment by a substring) and the others applied.
C5_Witness ==
    /\ ReturnedStack
    /\ DOMAIN template_defaults = DefaultKeys
    /\ template_defaults["language"] # <<>> /\ DefaultBlocked("language")
    /\ str_lower(template_defaults["deployment"]) \notin CannotLower
    /\ tech_result.deployment = <<>>
    /\ tech_result.framework = template_defaults["framework"]
    /\ dict_has(tech_result.additional_tools, S_cache)

MustUseEntries ==
    {k \in 1..Len(tech_result.additional_tools) :
        /\ Len(tech_result.additional_tools[k][1]) > Len(S_must_use_)
        /\ SubSeq(tech_result.additional_tools[k][1], 1, Len(S_must_use_)) = S_must_use_}

\* C6: in every returned TechStack the i-th must-use entry (from 0) is the
\* value of additional_tools under the key must_use_<i>, so repeated entries
\* are all kept and there are as many must-use items as list entries,
\* whatever the defaults and the cannot-use list are.
C6_MustUsePassedThrough ==
    ReturnedStack =>
        /\ \A i \in 1..Len(must_use_tech) :
              /\ dict_has(tech_result.additional_tools, S_must_use_ \o str_int(i - 1))
              /\ dict_get(tech_result.additional_tools, S_must_use_ \o str_int(i - 1))
                     = must_use_tech[i]
        /\ Cardinality(MustUseEntries) = Len(must_use_tech)

\* C6 witness: a TechStack returned for a brief that lists the same must-use
\* technology twice, with a cannot-use entry and a cache default present.
C6_Witness ==
    /\ ReturnedStack
    /\ Len(must_use_tech) = 2 /\ must_use_tech[1] = must_use_tech[2]
    /\ cannot_use_tech # <<>>
    /\ dict_has(tech_result.additional_tools, S_cache)
    /\ Cardinality(MustUseEntries) = 2

\* C7: every returned TechStack has a non-empty language.
C7_LanguageNonEmpty == ReturnedStack => tech_result.language # <<>>

\* C7 witness: TechStacks are returned when the language default is absent,
\* when it is empty and when it is blocked; this one is the blocked case
\* (the others are reachable alike).
C7_Witness ==
    /\ ReturnedStack
    /\ "language" \in DOMAIN template_defaults
    /\ template_defaults["language"] # <<>>
    /\ DefaultBlocked("language")
    /\ tech_result.language # <<>>

\* language defaults of the three families and of none of them
T_PYTHON_upper == <<"P", "Y", "T", "H", "O", "N">>
T_JavaScript == <<"J", "a", "v", "a", "S", "c", "r", "i", "p", "t">>
T_TypeScript == <<"T", "y", "p", "e", "S", "c", "r", "i", "p", "t">>

LanguageDefaults == {Absent, T_Go, T_PYTHON_upper, T_JavaScript, T_TypeScript}

LanguageOnly(language) ==
    [language |-> language, framework |-> Absent, database |-> Absent,
     cache |-> Absent, deployment |-> Absent, packaging |-> Absent]

PythonLike == str_in(S_python, str_lower(tech_result.language))

JsLike ==
    \/ str_in(S_javascript, str_lower(tech_result.language))
    \/ str_in(S_typescript, str_lower(tech_result.language))

\* C21 (as stated): testing, linting and type checking follow the family of
\* the resolved language: pytest, ruff and mypy for a language containing
\* 'python', a fallback value for each of the three for a language containing
\* 'javascript' or 'typescript', and all three unset for any other language.
C21_ToolsFollowLanguageFamily ==
    ReturnedStack =>
        IF PythonLike
        THEN /\ tech_result.testing = S_pytest
             /\ tech_result.linting = S_ruff
             /\ tech_result.type_checking = S_mypy
        ELSE IF JsLike
        THEN /\ tech_result.testing # <<>>
             /\ tech_result.linting # <<>>
             /\ tech_result.type_checking # <<>>
        ELSE /\ tech_result.testing = <<>>
             /\ tech_result.linting = <<>>
             /\ tech_result.type_checking = <<>>

\* C21 (amended): as above, except that in the JS/TS family testing is jest
\* and linting is eslint, while type checking is 'TypeScript' only for a
\* language containing 'typescript' and stays unset for one containing
\* 'javascript' alone.
C21_TypeCheckingOnlyForTypeScript ==
    ReturnedStack =>
        IF PythonLike
        THEN /\ tech_result.testing = S_pytest
             /\ tech_result.linting = S_ruff
             /\ tech_result.type_checking = S_mypy
        ELSE IF JsLike
        THEN /\ tech_result.testing = S_jest
             /\ tech_result.linting = S_eslint
             /\ tech_result.type_checking =
                    IF str_in(S_typescript, str_lower(tech_result.language))
                    THEN S_TypeScript ELSE <<>>
        ELSE /\ tech_result.testing = <<>>
             /\ tech_result.linting = <<>>
             /\ tech_result.type_checking = <<>>

\* a JavaScript stack: jest and eslint, no type checker
C21_Witness ==
    /\ ReturnedStack
    /\ tech_result.language = T_JavaScript
    /\ tech_result.testing = S_jest
    /\ tech_result.type_checking = <<>>

\* the values the returned TechStack holds in the six fields a default can fill
ChosenValues ==
    {v \in {tech_result.language, tech_result.framework, tech_result.database,
            tech_result.deployment} : v # <<>>}
        \cup {tech_result.additional_tools[k][2] :
                k \in {j \in 1..Len(tech_result.additional_tools) :
                          tech_result.additional_tools[j][1] \in {S_cache, S_packaging}}}

\* C25: no returned TechStack has a language, framework, database, deployment,
\* cache or packaging value whose lowercase form is one of the brief's
\* lowercased cannot_use entries; the fallback language included.
C25_NoCannotUseValueChosen ==
    ReturnedStack => \A v \in ChosenValues : str_lower(v) \notin CannotLower

\* the named fields of a TechStack and its 'cache' and 'packaging' entries
NamedFields(stack) ==
    [language |-> stack.language,
     framework |-> stack.framework,
     database |-> stack.database,
     testing |-> stack.testing,
     linting |-> stack.linting,
     type_checking |-> stack.type_checking,
     deployment |-> stack.deployment,
     ci_cd |-> stack.ci_cd,
     tools |-> SelectSeq(stack.additional_tools,
                         LAMBDA entry : entry[1] \in {S_cache, S_packaging})]

\* template defaults for the comparison of must-use lists: every key, or none
FullDefaults ==
    [language |-> T_Go, framework |-> T_FastAPI, database |-> T_PostgreSQL,
     cache |-> T_Redis, deployment |-> T_DockerAWS, packaging |-> T_setuptools]

\* the must-use lists a second brief may hold
OtherMustUse == SeqsUpTo(MustUseNames, MaxMustUse)

\* C26: two briefs that differ only in must_use_tech, neither with a
\* must/cannot conflict, get TechStacks with equal language, framework,
\* database, testing, linting, type_checking, deployment and ci_cd and equal
\* 'cache' and 'packaging' entries.
C26_MustUseLeavesNamedFieldsAlone ==
    ReturnedStack =>
        \A other \in OtherMustUse :
            conflicts(other, cannot_use_tech) = {} =>
                NamedFields(generate_tech_stack(other, cannot_use_tech, template_defaults))
                    = NamedFields(tech_result)

\* a brief whose must-use list repeats the template's cache default, next to
\* briefs with other must-use lists
C26_Witness ==
    /\ ReturnedStack
    /\ T_Redis \in Range(must_use_tech)
    /\ dict_has(tech_result.additional_tools, S_cache)
    /\ dict_get(tech_result.additional_tools, S_cache) = T_Redis
    /\ Len(tech_result.additional_tools) >= 2

(***************************************************************************)
(* generate_phases                                                         *)
(***************************************************************************)
\* bound of the template's default_phases list
MaxPhases == 4

\* string literals of phase_gen.py
S_Foundation == <<"F", "o", "u", "n", "d", "a", "t", "i", "o", "n">>
S_Complete_ == <<"C", "o", "m", "p", "l", "e", "t", "e", " ">>
S__phase == <<" ", "p", "h", "a", "s", "e">>

\* phase names used by the model
P_foundation_lower == <<"f", "o", "u", "n", "d", "a", "t", "i", "o", "n">>
P_Core == <<"C", "o", "r", "e">>
P_API == <<"A", "P", "I">>

PhaseNames == {S_Foundation, P_foundation_lower, P_Core, P_API}

\* variant that puts "Foundation" in front and keeps later occurrences
ensure_foundation_keep_rest(names) ==
    IF Len(names) = 0 \/ names[1] # S_Foundation
    THEN <<S_Foundation>> \o names
    ELSE names

\* if not default_phase_names or default_phase_names[0] != "Foundation": ...
ensure_foundation(names) ==
    IF Len(names) = 0 \/ names[1] # S_Foundation
    THEN <<S_Foundation>> \o SelectSeq(names, LAMBDA name : name # S_Foundation)
    ELSE names

\* Phase(id=str(i), title=phase_name, goal=..., days="", description="", tasks=[])
make_phase(i, phase_name) ==
    [id |-> str_int(i),
     title |-> phase_name,
     goal |-> S_Complete_ \o str_lower(phase_name) \o S__phase,
     days |-> <<>>,
     description |-> <<>>,
     tasks |-> <<>>]

generate_phases(default_phase_names_in) ==
    LET default_phase_names == ensure_foundation(default_phase_names_in)
    IN [i \in 1..Len(default_phase_names) |-> make_phase(i - 1, default_phase_names[i])]

\* the template's default_phases list gets one more name
AppendPhaseName(name) ==
    /\ Len(default_phases) < MaxPhases
    /\ default_phases' = Append(default_phases, name)
    /\ phases_result' = NoResult
    /\ UNCHANGED <<planVars, techVars, selectVars, inputVars>>

\* phases = generate_phases(brief)
GeneratePhases ==
    /\ phases_result = NoResult
    /\ phases_result' = [kind |-> "phases", phases |-> generate_phases(default_phases)]
    /\ UNCHANGED <<default_phases, planVars, techVars, selectVars, inputVars>>

(***************************************************************************)
(* Properties of generate_phases                                           *)
(***************************************************************************)
PhasesReturned == phases_result.kind = "phases"

Titles(phases) == [i \in 1..Len(phases) |-> phases[i].title]

\* value of a string of decimal digits, -1 when it is not one
RECURSIVE DecimalValue(_)
DecimalValue(s) ==
    IF Len(s) = 0 THEN -1
    ELSE LET d == IF \E k \in 1..10 : Digits[k] = s[Len(s)]
                  THEN (CHOOSE k \in 1..10 : Digits[k] = s[Len(s)]) - 1
                  ELSE -1
             head == IF Len(s) = 1 THEN 0 ELSE DecimalValue(SubSeq(s, 1, Len(s) - 1))
         IN IF d < 0 \/ head < 0 THEN -1 ELSE 10 * head + d

\* s is the decimal string of n: its digits give n and there is no leading zero
IsDecimalOf(s, n) == DecimalValue(s) = n /\ (Len(s) > 1 => s[1] # "0")

\* the elements of L other than "Foundation", in their original relative order
RECURSIVE WithoutFoundation(_)
WithoutFoundation(L) ==
    IF Len(L) = 0 THEN <<>>
    ELSE (IF Head(L) = S_Foundation THEN <<>> ELSE <<Head(L)>>)
         \o WithoutFoundation(Tail(L))

\* C8: the titles are L itself when L is non-empty and starts with exactly
\* "Foundation", and otherwise "Foundation" followed by the other elements of
\* L in their order; the i-th phase (from 0) has the decimal string of i as
\* id, so phase "0" is titled "Foundation"; every phase has no tasks.
C8_PhasesFromTemplate ==
    PhasesReturned =>
        LET phases == phases_result.phases IN
        /\ Titles(phases) =
              IF Len(default_phases) > 0 /\ default_phases[1] = S_Foundation
              THEN default_phases
              ELSE <<S_Foundation>> \o WithoutFoundation(default_phases)
        /\ \A i \in 1..Len(phases) :
              /\ IsDecimalOf(phases[i].id, i - 1)
              /\ phases[i].tasks = <<>>
        /\ Len(phases) >= 1
        /\ phases[1].id = <<"0">> /\ phases[1].title = S_Foundation

\* C8 witness: phases were generated from a list that does not start with
\* "Foundation" but holds it further down, between two other names.
C8_Witness ==
    /\ PhasesReturned
    /\ Len(default_phases) >= 3
    /\ default_phases[1] # S_Foundation
    /\ default_phases[2] = S_Foundation
    /\ default_phases[3] # S_Foundation
    /\ Len(phases_result.phases) = Len(default_phases)

\* C27: for every template default-phase list, the phases generate_phases
\* returns hold exactly one phase titled 'Foundation'.
C27_ExactlyOneFoundation ==
    PhasesReturned =>
        Cardinality({i \in 1..Len(phases_result.phases) :
                        phases_result.phases[i].title = S_Foundation}) = 1

(***************************************************************************)
(* select_template                                                         *)
(***************************************************************************)
\* bound of a template's project_types list
MaxPatterns == 2

\* the characters of the model in code-point order, as sorted() compares them
CharOrder ==
    <<" ", "+", "-", ".", "0", "1", "2", "3", "4", "5", "6", "7", "8", "9", "A", "B", "C", "D", "E", "F", "G", "H", "I", "J", "K", "L", "M", "N", "O", "P", "Q", "R", "S", "T", "U", "V", "W", "X", "Y", "Z", "_", "a", "b", "c", "d", "e", "f", "g", "h", "i", "j", "k", "l", "m", "n", "o", "p", "q", "r", "s", "t", "u", "v", "w", "x", "y", "z">>

char_ord(c) == CHOOSE k \in 1..Len(CharOrder) : CharOrder[k] = c

\* a < b for two strings
RECURSIVE str_less(_, _)
str_less(a, b) ==
    IF Len(b) = 0 THEN FALSE
    ELSE IF Len(a) = 0 THEN TRUE
    ELSE IF a[1] # b[1] THEN char_ord(a[1]) < char_ord(b[1])
    ELSE str_less(Tail(a), Tail(b))

\* sorted(names)
RECURSIVE sorted(_)
sorted(names) ==
    IF names = {} THEN <<>>
    ELSE LET least == CHOOSE n \in names : \A m \in names \ {n} : str_less(n, m)
         IN <<least>> \o sorted(names \ {least})

Whitespace == {" ", "\t", "\n"}

\* str.strip()
RECURSIVE str_strip(_)
str_strip(s) ==
    IF Len(s) = 0 THEN s
    ELSE IF s[1] \in Whitespace THEN str_strip(Tail(s))
    ELSE IF s[Len(s)] \in Whitespace THEN str_strip(SubSeq(s, 1, Len(s) - 1))
    ELSE s

\* directory names under the templates directory
D_api == <<"a", "p", "i">>
D_base == <<"b", "a", "s", "e">>
D_cli == <<"c", "l", "i">>
D_draft == <<"_", "d", "r", "a", "f", "t">>

TemplateDirs == {D_api, D_base, D_cli, D_draft}

\* project_types patterns the configs declare
Pat_CLITool == <<"C", "L", "I", " ", "T", "o", "o", "l">>
Pat_API == <<" ", "A", "P", "I", " ">>

Patterns == {Pat_CLITool, Pat_API}

\* project-type strings passed to select_template
ProjectTypes ==
    {<<"C", "L", "I">>,
     <<" ", "c", "l", "i", " ">>,
     <<"A", "p", "i">>,
     <<"R", "E", "S", "T", " ", "A", "P", "I">>,
     <<>>,
     <<"g", "a", "m", "e">>}

\* a template directory: whether it exists, the state of its config.yaml
\* ("missing", "invalid": load_template_config raises, "ok") and the
\* project_types list of a config that loads
NotInstalled == [dir |-> FALSE, config |-> "missing", project_types |-> <<>>]
DirOnly == [dir |-> TRUE, config |-> "missing", project_types |-> <<>>]
InvalidConfig == [dir |-> TRUE, config |-> "invalid", project_types |-> <<>>]
Installed(project_types) == [dir |-> TRUE, config |-> "ok", project_types |-> project_types]

DirStates ==
    {NotInstalled, DirOnly, InvalidConfig}
        \cup {Installed(pts) : pts \in SeqsUpTo(Patterns, MaxPatterns)}

\* the underscore directory is either absent or a loadable template
DraftStates == {NotInstalled, Installed(<<Pat_CLITool>>)}

\* path.name.startswith("_")
starts_with_underscore(name) == Len(name) > 0 /\ name[1] = "_"

\* sorted(names of the directories that hold a config.yaml and do not start with "_")
list_templates(dirs) ==
    sorted({name \in DOMAIN dirs :
                /\ dirs[name].dir
                /\ ~starts_with_underscore(name)
                /\ dirs[name].config # "missing"})

\* variant that also accepts a pattern contained in the input
matches_either_direction(normalized_input, template_type) ==
    LET normalized_template == str_strip(str_lower(template_type))
    IN \/ normalized_input = normalized_template
       \/ str_in(normalized_input, normalized_template)
       \/ str_in(normalized_template, normalized_input)

matches_project_type(normalized_input, template_type) ==
    LET normalized_template == str_strip(str_lower(template_type))
    IN \/ normalized_input = normalized_template
       \/ str_in(normalized_input, normalized_template)

\* the loop over list_templates() and what follows it
RECURSIVE select_from(_, _, _, _)
select_from(dirs, names, i, normalized_type) ==
    IF i > Len(names)
    THEN IF dirs[D_base].dir
         THEN [kind |-> "Path", name |-> D_base]
         ELSE [kind |-> "ValueError", message |-> "no matching template"]
    ELSE LET template == dirs[names[i]] IN
         IF template.config = "missing"
         THEN select_from(dirs, names, i + 1, normalized_type)
         ELSE IF template.config = "invalid"
         THEN [kind |-> "ValueError", message |-> "failed to load template config"]
         ELSE IF \E k \in 1..Len(template.project_types) :
                    matches_project_type(normalized_type, template.project_types[k])
         THEN [kind |-> "Path", name |-> names[i]]
         ELSE select_from(dirs, names, i + 1, normalized_type)

select_template(dirs, type) ==
    select_from(dirs, list_templates(dirs), 1, str_strip(str_lower(type)))

\* path = select_template(project_type)
SelectTemplate ==
    /\ select_result = NoResult
    /\ select_result' = select_template(templates, project_type)
    /\ UNCHANGED <<templates, project_type, planVars, techVars, phaseVars, inputVars>>

\* another call, with another project type, on the same installation
ChangeProjectType(type) ==
    /\ select_result # NoResult
    /\ type # project_type
    /\ project_type' = type
    /\ select_result' = NoResult
    /\ UNCHANGED <<templates, planVars, techVars, phaseVars, inputVars>>

(***************************************************************************)
(* Properties of select_template                                           *)
(***************************************************************************)
Selected == select_result.kind # "none"

Normalized(s) == str_strip(str_lower(s))

\* the templates list_templates knows
Listed ==
    {name \in TemplateDirs :
        templates[name].dir /\ name[1] # "_" /\ templates[name].config # "missing"}

\* template `name` declares a pattern that equals the normalized input or
\* contains it
DeclaresMatch(name, type) ==
    \E k \in 1..Len(templates[name].project_types) :
        LET pattern == Normalized(templates[name].project_types[k])
        IN Normalized(type) = pattern \/ str_in(Normalized(type), pattern)

Matching(type) == {name \in Listed : DeclaresMatch(name, type)}

FirstByName(names) == CHOOSE n \in names : \A m \in names \ {n} : str_less(n, m)

AllConfigsLoad == \A name \in Listed : templates[name].config = "ok"

\* C9: what select_template returns is the first template in ascending name
\* order that declares a pattern equal to, or containing, the lowercased and
\* trimmed input, and the base template when no template does; with loadable
\* configs it returns whenever there is a match or a base template; inputs
\* that differ only in case or surrounding whitespace get the same outcome.
C9_FirstMatchOrBase ==
    Selected =>
        /\ select_result.kind = "Path" =>
              select_result.name =
                  IF Matching(project_type) # {}
                  THEN FirstByName(Matching(project_type))
                  ELSE D_base
        /\ (AllConfigsLoad /\ (Matching(project_type) # {} \/ templates[D_base].dir))
              => select_result.kind = "Path"
        /\ \A other \in ProjectTypes :
              Normalized(other) = Normalized(project_type)
                  => select_template(templates, other) = select_result

\* C9 witness: select_template returned a template other than base for an
\* input written with uppercase letters or surrounding whitespace, while at
\* least two templates declare a matching pattern (so the name order decides)
\* and another input differs from this one in case or whitespace only.
C9_Witness ==
    /\ select_result.kind = "Path"
    /\ select_result.name # D_base
    /\ project_type # Normalized(project_type)
    /\ Cardinality(Matching(project_type)) >= 2
    /\ \E other \in ProjectTypes :
          other # project_type /\ Normalized(other) = Normalized(project_type)

\* C10: select_template fails only when no pattern matches and the base
\* template is absent; with a base template present it returns a template,
\* whether or not each config record is well-formed.
C10_FailsOnlyWithoutBase ==
    Selected =>
        /\ select_result.kind = "ValueError" =>
              (Matching(project_type) = {} /\ ~templates[D_base].dir)
        /\ templates[D_base].dir => select_result.kind = "Path"

\* C29: a project type that is empty or only whitespace names no template:
\* with 'base' present, select_template returns 'base' for it (stated for
\* installations in which every config loads).
C29_BlankTypeSelectsBase ==
    (/\ Selected
     /\ str_strip(project_type) = <<>>
     /\ templates[D_base].dir
     /\ \A name \in TemplateDirs : templates[name].config # "invalid")
        => select_result = [kind |-> "Path", name |-> D_base]

(***************************************************************************)
(* convert_to_project_brief (generator/brief_converter.py)                 *)
(*                                                                         *)
(* basic_info maps a field name to what the dictionary holds under it:     *)
(* nothing (the key is absent or None), a str, or a list of str.  The      *)
(* other four dictionaries are copied into the brief and read by no check, *)
(* so the brief of the model keeps the fields taken from basic_info.       *)
(***************************************************************************)
MaxProjectTypes == 2

S_comma_space == <<",", " ">>
S_one == <<"1">>

Missing == [kind |-> "missing"]
StrValue(s) == [kind |-> "str", value |-> s]
ListValue(l) == [kind |-> "list", items |-> l]

\* sep.join(items)
RECURSIVE str_join(_, _)
str_join(sep, items) ==
    IF items = <<>> THEN <<>>
    ELSE IF Len(items) = 1 THEN items[1]
    ELSE items[1] \o sep \o str_join(sep, Tail(items))

RequiredError(field_name) ==
    [kind |-> "ValueError",
     message |-> [text |-> "Required field is missing or empty",
                  fields |-> <<field_name>>]]

\* _get_string_field: data.get(field_name, default), made a str, checked, stripped
get_string_field(data, field_name, required, default) ==
    LET held == data[field_name]
        value == CASE held.kind = "missing" -> default
                   [] held.kind = "list" -> str_join(S_comma_space, held.items)
                   [] held.kind = "str" -> held.value
    IN  IF required /\ str_strip(value) = <<>>
        THEN RequiredError(field_name)
        ELSE StrValue(str_strip(value))

\* the project_type block of convert_to_project_brief
project_type_field(data) ==
    LET held == data["project_type"]
    IN  CASE held.kind = "missing" -> RequiredError("project_type")
          [] held.kind = "list" ->
                IF held.items = <<>> THEN RequiredError("project_type")
                ELSE StrValue(str_join(S_comma_space, held.items))
          [] held.kind = "str" ->
                IF str_strip(held.value) = <<>> THEN RequiredError("project_type")
                ELSE StrValue(held.value)

team_size_field(data) ==
    LET team_size == get_string_field(data, "team_size", FALSE, S_one).value
    IN  IF str_strip(team_size) = <<>> THEN S_one ELSE team_size

is_blank(s) == s = <<>> \/ str_strip(s) = <<>>

RequiredMessage(field_name) ==
    [text |-> "is required and cannot be empty", field |-> field_name]

\* ProjectBrief.validate
ProjectBrief_validate(brief) ==
    (IF is_blank(brief.project_name) THEN <<RequiredMessage("project_name")>> ELSE <<>>)
    \o (IF is_blank(brief.project_type) THEN <<RequiredMessage("project_type")>> ELSE <<>>)
    \o (IF is_blank(brief.primary_goal) THEN <<RequiredMessage("primary_goal")>> ELSE <<>>)
    \o (IF is_blank(brief.target_users) THEN <<RequiredMessage("target_users")>> ELSE <<>>)
    \o (IF is_blank(brief.timeline) THEN <<RequiredMessage("timeline")>> ELSE <<>>)

validated_unchecked(brief) == brief

\* the closing check of convert_to_project_brief: brief.validate(), raise or return
validated(brief) ==
    LET brief_errors == ProjectBrief_validate(brief)
    IN  IF brief_errors # <<>>
        THEN [kind |-> "ValueError",
              message |-> [text |-> "ProjectBrief validation failed",
                           fields |-> [i \in 1..Len(brief_errors) |->
                                           brief_errors[i].field]]]
        ELSE brief

convert_to_project_brief(info) ==
    LET project_name == get_string_field(info, "project_name", TRUE, <<>>)
        primary_goal == get_string_field(info, "primary_goal", TRUE, <<>>)
        target_users == get_string_field(info, "target_users", TRUE, <<>>)
        timeline == get_string_field(info, "timeline", TRUE, <<>>)
        project_type_str == project_type_field(info)
    IN  IF project_name.kind = "ValueError" THEN project_name
        ELSE IF primary_goal.kind = "ValueError" THEN primary_goal
        ELSE IF target_users.kind = "ValueError" THEN target_users
        ELSE IF timeline.kind = "ValueError" THEN timeline
        ELSE IF project_type_str.kind = "ValueError" THEN project_type_str
        ELSE validated([kind |-> "ProjectBrief",
                        project_name |-> project_name.value,
                        project_type |-> project_type_str.value,
                        primary_goal |-> primary_goal.value,
                        target_users |-> target_users.value,
                        timeline |-> timeline.value,
                        team_size |-> team_size_field(info)])

StringFields == {"project_name", "primary_goal", "target_users", "timeline"}
FieldValues == {Missing, StrValue(<<>>), StrValue(<<" ">>), StrValue(<<" ", "A", " ">>)}
TeamSizes == {Missing, StrValue(<<" ">>), StrValue(<<"2">>)}
ProjectTypeItems == {<<>>, <<" ">>, <<"C", "L", "I">>}
ProjectTypeScalars == {Missing, StrValue(<<" ">>), StrValue(<<" ", "A", "P", "I">>)}

\* what extract_basic_info returns for a document without a field line
EmptyBasicInfo ==
    [project_name |-> StrValue(<<>>), project_type |-> ListValue(<<>>),
     primary_goal |-> StrValue(<<>>), target_users |-> StrValue(<<>>),
     timeline |-> StrValue(<<>>), team_size |-> StrValue(<<>>)]

SetField(field_name, value) ==
    /\ basic_info[field_name] # value
    /\ basic_info' = [basic_info EXCEPT ![field_name] = value]
    /\ convert_result' = NoResult
    /\ UNCHANGED convertFrame

AppendProjectType(item) ==
    /\ basic_info["project_type"].kind = "list"
    /\ Len(basic_info["project_type"].items) < MaxProjectTypes
    /\ basic_info' = [basic_info EXCEPT !["project_type"] =
                          ListValue(Append(basic_info["project_type"].items, item))]
    /\ convert_result' = NoResult
    /\ UNCHANGED convertFrame

ConvertToProjectBrief ==
    /\ convert_result' = convert_to_project_brief(basic_info)
    /\ UNCHANGED <<basic_info, convertFrame>>

(***************************************************************************)
(* Properties of convert_to_project_brief                                  *)
(***************************************************************************)
Converted == convert_result # NoResult

RequiredOrder ==
    <<"project_name", "project_type", "primary_goal", "target_users", "timeline">>

\* the text a required field holds: a list joined with ", ", nothing as ""
HeldText(field_name) ==
    LET held == basic_info[field_name]
    IN  CASE held.kind = "missing" -> <<>>
          [] held.kind = "list" -> str_join(S_comma_space, held.items)
          [] held.kind = "str" -> held.value

BlankRequired(field_name) ==
    \A i \in 1..Len(HeldText(field_name)) : HeldText(field_name)[i] \in Whitespace

\* C11: the conversion fails exactly when one of the five required fields
\* (project_type joined with ", ") is empty or all whitespace; otherwise it
\* returns a brief, and a returned brief has no validation message.
C11_FailsIffRequiredBlank ==
    Converted =>
        /\ convert_result.kind \in {"ValueError", "ProjectBrief"}
        /\ convert_result.kind = "ValueError" <=>
               \E i \in 1..Len(RequiredOrder) : BlankRequired(RequiredOrder[i])
        /\ convert_result.kind = "ProjectBrief" =>
               ProjectBrief_validate(convert_result) = <<>>

\* a brief returned from a two-entry project type with an empty entry
C11_Witness ==
    /\ Converted
    /\ convert_result.kind = "ProjectBrief"
    /\ basic_info["project_type"] = ListValue(<<<<>>, <<"C", "L", "I">>>>)
    /\ basic_info["team_size"] = Missing

MissingInOrder ==
    SelectSeq(RequiredOrder, LAMBDA f : BlankRequired(f))

\* C12: a failure names every missing required field, in the order project
\* name, project type, primary goal, target users, timeline.
C12_MessageNamesEveryMissingField ==
    (Converted /\ convert_result.kind = "ValueError") =>
        convert_result.message.fields = MissingInOrder

(***************************************************************************)
(* extract_field_value (generator/parser.py)                               *)
(*                                                                         *)
(* field_lines holds the lines of the text as they were written: a line    *)
(* marker, the field name between the ** pairs, and the text after ": ".   *)
(* The text handed to extract_field_value is their rendering.              *)
(***************************************************************************)
MaxLines == 2
MaxValueLen == 4

S_dash == <<"-">>
S_stars == <<"*", "*">>
S_stars_colon == <<"*", "*", ":">>
S_newline == <<"\n">>

\* s.split(sep) for a one-character separator
RECURSIVE str_split(_, _)
str_split(s, sep) ==
    IF \A i \in 1..Len(s) : s[i] # sep THEN <<s>>
    ELSE LET k == CHOOSE i \in 1..Len(s) : s[i] = sep /\ \A j \in 1..(i - 1) : s[j] # sep
         IN  <<SubSeq(s, 1, k - 1)>> \o str_split(SubSeq(s, k + 1, Len(s)), sep)

\* end of the run of whitespace that begins at pos: what \s* consumes
RECURSIVE skip_whitespace(_, _)
skip_whitespace(s, pos) ==
    IF pos <= Len(s) /\ s[pos] \in Whitespace THEN skip_whitespace(s, pos + 1) ELSE pos

\* the literal lit stands in s at pos
literal_at(s, pos, lit) ==
    /\ pos + Len(lit) - 1 <= Len(s)
    /\ SubSeq(s, pos, pos + Len(lit) - 1) = lit

\* the same under re.IGNORECASE
literal_at_ignorecase(s, pos, lit) ==
    /\ pos + Len(lit) - 1 <= Len(s)
    /\ str_lower(SubSeq(s, pos, pos + Len(lit) - 1)) = str_lower(lit)

NoMatch == [matched |-> FALSE]

\* re.match(rf"^-?\s*\*\*{re.escape(field_name)}\*\*:\s*(.+)$", line, re.IGNORECASE)
\* on a stripped line; group is group(1)
match_field_line(line, field_name) ==
    LET stars_at == skip_whitespace(line, IF literal_at(line, 1, S_dash) THEN 2 ELSE 1)
        name_at == stars_at + 2
        colon_at == name_at + Len(field_name)
        group_at == skip_whitespace(line, colon_at + 3)
    IN  IF /\ literal_at(line, stars_at, S_stars)
           /\ literal_at_ignorecase(line, name_at, field_name)
           /\ literal_at(line, colon_at, S_stars_colon)
           /\ group_at <= Len(line)
        THEN [matched |-> TRUE, group |-> SubSeq(line, group_at, Len(line))]
        ELSE NoMatch

\* re.sub(r"^\[.\]\s*", "", value)
remove_any_bracket(value) ==
    IF Len(value) >= 3 /\ value[1] = "[" /\ value[3] = "]"
    THEN SubSeq(value, skip_whitespace(value, 4), Len(value))
    ELSE value

\* re.sub(r"^\[[ x]\]\s*", "", value)
remove_checkbox(value) ==
    IF Len(value) >= 3 /\ value[1] = "[" /\ value[2] \in {" ", "x"} /\ value[3] = "]"
    THEN SubSeq(value, skip_whitespace(value, 4), Len(value))
    ELSE value

\* the loop of extract_field_value from line i on
RECURSIVE first_field_value(_, _, _)
first_field_value(lines, i, field_name) ==
    IF i > Len(lines) THEN <<>>
    ELSE LET match == match_field_line(str_strip(lines[i]), field_name)
         IN  IF match.matched THEN remove_checkbox(str_strip(match.group))
             ELSE first_field_value(lines, i + 1, field_name)

extract_field_value(text, field_name_in) ==
    first_field_value(str_split(text, "\n"), 1, field_name_in)

\* a line as written: marker, "**", name, "**: ", value
render_line(l) == l.marker \o S_stars \o l.name \o S_stars_colon \o <<" ">> \o l.value

rendered_text(lines) == str_join(S_newline, [i \in 1..Len(lines) |-> render_line(lines[i])])

F_Goal == <<"G", "o", "a", "l">>
F_goal_lower == <<"g", "o", "a", "l">>
F_Type == <<"T", "y", "p", "e">>

V_plain == <<"v">>
V_checked == <<"[", "x", "]", " ", "v">>
V_checked_upper == <<"[", "X", "]", " ", "v">>
V_unchecked == <<"[", " ", "]", " ", "v">>

Markers == {<<"-", " ">>, <<>>}
WrittenNames == {F_goal_lower, F_Type}
WrittenValues == {V_plain, V_checked, V_checked_upper, V_unchecked, <<>>}
WrittenLines == [marker : Markers, name : WrittenNames, value : WrittenValues]
QueriedNames == {F_Goal, F_Type}
ValueChars == {" ", "a", "[", "x", "X", "]", "\n"}

AppendLine(l) ==
    /\ Len(field_lines) < MaxLines
    /\ field_lines' = Append(field_lines, l)
    /\ field_result' = NoResult
    /\ UNCHANGED <<queried_name, fieldFrame>>

QueryField(name) ==
    /\ queried_name # name
    /\ queried_name' = name
    /\ field_result' = NoResult
    /\ UNCHANGED <<field_lines, fieldFrame>>

\* one more character of the value of a single written line
AppendValueChar(c) ==
    /\ Len(field_lines) = 1
    /\ Len(field_lines[1].value) < MaxValueLen
    /\ field_lines' = [field_lines EXCEPT ![1].value = Append(@, c)]
    /\ field_result' = NoResult
    /\ UNCHANGED <<queried_name, fieldFrame>>

ExtractFieldValue ==
    /\ field_result' = [kind |-> "str",
                        value |-> extract_field_value(rendered_text(field_lines), queried_name)]
    /\ UNCHANGED <<field_lines, queried_name, fieldFrame>>

(***************************************************************************)
(* Properties of extract_field_value                                       *)
(***************************************************************************)
Extracted == field_result # NoResult

\* the lines written for the queried name, with a value
LinesOfField ==
    {i \in 1..Len(field_lines) :
        /\ str_lower(field_lines[i].name) = str_lower(queried_name)
        /\ field_lines[i].value # <<>>}

FirstLineOfField == CHOOSE i \in LinesOfField : \A j \in LinesOfField : i <= j

IsCheckboxToken(s) ==
    Len(s) = 3 /\ s[1] = "[" /\ s[2] \in {" ", "x", "X"} /\ s[3] = "]"

BeginsWithCheckbox(s) == Len(s) >= 3 /\ IsCheckboxToken(SubSeq(s, 1, 3))

\* the value without one leading checkbox token, [x] in either case or [ ]
WithoutCheckbox(s) ==
    IF BeginsWithCheckbox(s)
    THEN str_strip(SubSeq(s, 4, Len(s)))
    ELSE s

\* C14: the result is the value of the first line written for the name
\* (name compared without case), trimmed, one leading checkbox token [x], [X]
\* or [ ] removed; the empty string when there is no such line.
C14_FirstLineValueWithoutCheckbox ==
    (Extracted /\ \A i \in 1..Len(field_lines) : "\n" \notin Range(field_lines[i].value)) =>
        field_result.value =
            IF LinesOfField = {} THEN <<>>
            ELSE WithoutCheckbox(str_strip(field_lines[FirstLineOfField].value))

HasStars(s) == str_in(S_stars, s)

CanonicalLine ==
    /\ Len(field_lines) = 1
    /\ field_lines[1].marker = <<"-", " ">>
    /\ field_lines[1].name = queried_name
    /\ ~HasStars(field_lines[1].value)
    /\ "\n" \notin Range(field_lines[1].value)

\* C15 as stated: extracting F from "- **F**: v" returns v, for every v
\* without "**" and without a newline.
C15_RoundTripLossless ==
    (Extracted /\ CanonicalLine) => field_result.value = field_lines[1].value

\* C15: extracting F from "- **F**: v" returns v, for every v without "**"
\* and without a newline that has no whitespace at either end and does not
\* begin with a checkbox token.
C15_RoundTripOfTrimmedValue ==
    (/\ Extracted
     /\ CanonicalLine
     /\ field_lines[1].value = str_strip(field_lines[1].value)
     /\ ~BeginsWithCheckbox(field_lines[1].value)) =>
        field_result.value = field_lines[1].value

\* a value that begins with a bracket which is no checkbox came back as written
C15_Witness ==
    /\ Extracted
    /\ CanonicalLine
    /\ field_lines[1].value = <<"[", "a", "]", "x">>
    /\ field_result.value = field_lines[1].value

(***************************************************************************)
(* extract_basic_info (generator/brief_extractor.py)                       *)
(*                                                                         *)
(* The "Basic Information" section is the rendering of info_lines followed *)
(* by the Project Type line, whose inline checkbox segments are            *)
(* type_segments: "- **Project Type**: [x] CLI + [ ] Web".                 *)
(***************************************************************************)
MaxSegments == 2

S_BasicInformation == <<"B", "a", "s", "i", "c", " ", "I", "n", "f", "o", "r", "m", "a", "t", "i", "o", "n">>
S_ProjectName == <<"P", "r", "o", "j", "e", "c", "t", " ", "N", "a", "m", "e">>
S_PrimaryGoal == <<"P", "r", "i", "m", "a", "r", "y", " ", "G", "o", "a", "l">>
S_TargetUsers == <<"T", "a", "r", "g", "e", "t", " ", "U", "s", "e", "r", "s">>
S_Timeline == <<"T", "i", "m", "e", "l", "i", "n", "e">>
S_TeamSize == <<"T", "e", "a", "m", " ", "S", "i", "z", "e">>
S_ProjectType == <<"P", "r", "o", "j", "e", "c", "t", " ", "T", "y", "p", "e">>
S_checked == <<"[", "x", "]">>
S_plus_spaced == <<" ", "+", " ">>

\* re.sub(r"\[x\]\s*", "", part, flags=re.IGNORECASE): every occurrence goes
RECURSIVE remove_all_checked(_)
remove_all_checked(part) ==
    IF part = <<>> THEN part
    ELSE IF literal_at_ignorecase(part, 1, S_checked)
         THEN remove_all_checked(SubSeq(part, skip_whitespace(part, 4), Len(part)))
         ELSE <<part[1]>> \o remove_all_checked(Tail(part))

\* the elif branch: a part that does not begin with "[" is kept when not empty
unmarked_part_kept(part) == ~literal_at(part, 1, <<"[">>) /\ part # <<>>

\* the loop over the parts of the Project Type line, from part i on
RECURSIVE project_types_from(_, _)
project_types_from(parts, i) ==
    IF i > Len(parts) THEN <<>>
    ELSE LET part == str_strip(parts[i])
             clean_part == str_strip(remove_all_checked(part))
             kept == IF literal_at_ignorecase(part, 1, S_checked)
                     THEN (IF clean_part # <<>> THEN <<clean_part>> ELSE <<>>)
                     ELSE IF unmarked_part_kept(part) THEN <<part>>
                     ELSE <<>>
         IN  kept \o project_types_from(parts, i + 1)

extract_basic_info(sections) ==
    LET basic_info_section == IF dict_has(sections, S_BasicInformation)
                              THEN dict_get(sections, S_BasicInformation)
                              ELSE <<>>
        project_type_line == extract_field_value(basic_info_section, S_ProjectType)
    IN  [project_name |-> StrValue(extract_field_value(basic_info_section, S_ProjectName)),
         project_type |-> ListValue(IF project_type_line # <<>>
                                    THEN project_types_from(str_split(project_type_line, "+"), 1)
                                    ELSE <<>>),
         primary_goal |-> StrValue(extract_field_value(basic_info_section, S_PrimaryGoal)),
         target_users |-> StrValue(extract_field_value(basic_info_section, S_TargetUsers)),
         timeline |-> StrValue(extract_field_value(basic_info_section, S_Timeline)),
         team_size |-> StrValue(extract_field_value(basic_info_section, S_TeamSize))]

L_CLI == <<"C", "L", "I">>
L_Web == <<"W", "e", "b">>
Box_checked == <<"[", "x", "]">>
Box_checked_upper == <<"[", "X", "]">>
Box_unchecked == <<"[", " ", "]">>
Boxes == {Box_checked, Box_checked_upper, Box_unchecked}
Labels == {L_CLI, L_Web}

V_Planner == <<"P", "l", "a", "n">>
ProjectNameLine == [marker |-> <<"-", " ">>, name |-> S_ProjectName, value |-> V_Planner]

render_segment(segment) == segment.box \o <<" ">> \o segment.label

project_type_line_of(segments) ==
    [marker |-> <<"-", " ">>, name |-> S_ProjectType,
     value |-> str_join(S_plus_spaced,
                        [i \in 1..Len(segments) |-> render_segment(segments[i])])]

\* the sections dictionary of the document
sections_of(lines, segments) ==
    <<<<S_BasicInformation,
        rendered_text(IF segments = <<>> THEN lines
                      ELSE Append(lines, project_type_line_of(segments)))>>>>

AppendSegment(box, label) ==
    /\ Len(type_segments) < MaxSegments
    /\ type_segments' = Append(type_segments, [box |-> box, label |-> label])
    /\ info_result' = NoResult
    /\ UNCHANGED <<info_lines, infoFrame>>

ExtractBasicInfo ==
    /\ info_result' = extract_basic_info(sections_of(info_lines, type_segments))
    /\ UNCHANGED <<info_lines, type_segments, infoFrame>>

(***************************************************************************)
(* Properties of extract_basic_info                                        *)
(***************************************************************************)
InfoExtracted == info_result # NoResult

CheckedSegments ==
    SelectSeq(type_segments, LAMBDA segment : segment.box \in {Box_checked, Box_checked_upper})

\* C13: project_type is exactly the labels of the segments marked [x] or
\* [X], in line order; no [ ] segment is in it, wherever it stands.
C13_OnlyCheckedSegments ==
    InfoExtracted =>
        info_result.project_type =
            ListValue([i \in 1..Len(CheckedSegments) |-> CheckedSegments[i].label])

(***************************************************************************)
(* parse_markdown_content (generator/parser.py)                            *)
(*                                                                         *)
(* doc_lines holds the lines of the document; the content handed to the    *)
(* parser is the lines joined by "\n".                                     *)
(***************************************************************************)
MaxDocLines == 4

MaxHeadingLevel == 6
MinSectionLevel == 2

None == [kind |-> "None"]

\* number of "#" characters at the start of the line
RECURSIVE count_hashes(_, _)
count_hashes(line, n) ==
    IF n < Len(line) /\ line[n + 1] = "#" THEN count_hashes(line, n + 1) ELSE n

\* re.match(r"^(#{1,6})\s+(.+)$", line): level is len(group(1)), text is group(2)
heading_match(line) ==
    LET hashes == count_hashes(line, 0)
        text_at == skip_whitespace(line, hashes + 1)
    IN  IF /\ hashes >= 1
           /\ hashes <= MaxHeadingLevel
           /\ text_at > hashes + 1
           /\ (text_at <= Len(line) \/ text_at > hashes + 2)
        THEN [matched |-> TRUE, level |-> hashes,
              text |-> IF text_at <= Len(line) THEN SubSeq(line, text_at, Len(line))
                       ELSE <<line[Len(line)]>>]
        ELSE NoMatch

tracked_level_any(heading_level) == heading_level >= 1

\* "Only track ## level headings and below"
tracked_level(heading_level) == heading_level >= MinSectionLevel

\* sections[current_section] = "\n".join(current_content).strip()
save_section(st) ==
    IF st.current_section = None THEN st.sections
    ELSE dict_set(st.sections, st.current_section.value,
                  str_strip(str_join(S_newline, st.current_content)))

\* one turn of the loop of parse_markdown_content
parse_line(st, line) ==
    LET heading == heading_match(line)
    IN  IF heading.matched
        THEN IF tracked_level(heading.level)
             THEN [sections |-> save_section(st),
                   current_section |-> StrValue(str_strip(heading.text)),
                   current_content |-> <<>>]
             ELSE [st EXCEPT !.sections = save_section(st)]
        ELSE IF st.current_section # None
             THEN [st EXCEPT !.current_content = Append(@, line)]
             ELSE st

RECURSIVE parse_lines(_, _, _)
parse_lines(st, lines, i) ==
    IF i > Len(lines) THEN st ELSE parse_lines(parse_line(st, lines[i]), lines, i + 1)

parse_markdown_content(content) ==
    save_section(parse_lines([sections |-> <<>>, current_section |-> None,
                              current_content |-> <<>>],
                             str_split(content, "\n"), 1))

DocLines ==
    {<<"#", " ", "T">>, <<"#", "#", " ", "A">>, <<"#", "#", "#", " ", "B">>,
     <<"#", "#", " ", " ", "A", " ">>, <<"#", "#", "#", "#", "#", "#", "#", " ", "A">>,
     <<"t">>, <<>>}

AppendDocLine(line) ==
    /\ Len(doc_lines) < MaxDocLines
    /\ doc_lines' = Append(doc_lines, line)
    /\ parse_result' = NoResult
    /\ UNCHANGED markdownFrame

ParseMarkdownContent ==
    /\ parse_result' = [kind |-> "dict",
                        sections |-> parse_markdown_content(str_join(S_newline, doc_lines))]
    /\ UNCHANGED <<doc_lines, markdownFrame>>

(***************************************************************************)
(* Properties of parse_markdown_content                                    *)
(***************************************************************************)
Parsed == parse_result # NoResult

HeadingLevelOf(i) ==
    IF heading_match(doc_lines[i]).matched THEN heading_match(doc_lines[i]).level ELSE 0

SectionHeadings == {i \in 1..Len(doc_lines) : HeadingLevelOf(i) >= 2}

HeadingText(i) == str_strip(heading_match(doc_lines[i]).text)

\* the last heading of the document with the text of heading i
LastWithText(i) == \A j \in SectionHeadings : HeadingText(j) = HeadingText(i) => j <= i

SectionEnd(i) ==
    IF \E j \in SectionHeadings : j > i
    THEN (CHOOSE j \in SectionHeadings : j > i /\ \A k \in SectionHeadings : k > i => j <= k) - 1
    ELSE Len(doc_lines)

LinesAfter(i) == SubSeq(doc_lines, i + 1, SectionEnd(i))

KeysAreSectionHeadings ==
    /\ \A k \in 1..Len(parse_result.sections) :
           \E i \in SectionHeadings : HeadingText(i) = parse_result.sections[k][1]
    /\ \A k, l \in 1..Len(parse_result.sections) :
           parse_result.sections[k][1] = parse_result.sections[l][1] => k = l
    /\ \A i \in SectionHeadings : dict_has(parse_result.sections, HeadingText(i))

MaxDeviations == 2

MinDeliverables == 3
MaxDeliverables == 7

S_SingleSession == <<"(", "S", "i", "n", "g", "l", "e", " ", "S", "e", "s", "s", "i", "o", "n", ")">>
S_zero == <<"0">>
S_pending == <<"p", "e", "n", "d", "i", "n", "g">>
S_in_progress == <<"i", "n", "_", "p", "r", "o", "g", "r", "e", "s", "s">>
S_completed == <<"c", "o", "m", "p", "l", "e", "t", "e", "d">>
S_blocked == <<"b", "l", "o", "c", "k", "e", "d">>
valid_statuses == <<S_pending, S_in_progress, S_completed, S_blocked>>

is_digit(c) == \E k \in 1..Len(Digits) : Digits[k] = c

\* str.isdigit()
str_isdigit(s) == s # <<>> /\ \A i \in 1..Len(s) : is_digit(s[i])

\* what "$" leaves to match: the string, or the string without one final "\n"
before_dollar(s) ==
    IF s # <<>> /\ s[Len(s)] = "\n" THEN SubSeq(s, 1, Len(s) - 1) ELSE s

\* re.match of ^\d+(\.\d+){groups - 1}$ : X.Y for 2 groups, X.Y.Z for 3
matches_dotted_digits(s, groups) ==
    LET parts == str_split(before_dollar(s), ".")
    IN  /\ Len(parts) = groups
        /\ \A i \in 1..Len(parts) : str_isdigit(parts[i])

\* Subtask.validate, left after the first message
Subtask_validate_first_only(subtask) ==
    IF ~matches_dotted_digits(subtask.id, 3)
    THEN <<[kind |-> "subtask_id_format", id |-> subtask.id]>>
    ELSE IF ~str_in(S_SingleSession, subtask.title)
    THEN <<[kind |-> "title_single_session"]>>
    ELSE IF Len(subtask.deliverables) < MinDeliverables
    THEN <<[kind |-> "deliverables_minimum", count |-> Len(subtask.deliverables)]>>
    ELSE IF Len(subtask.deliverables) > MaxDeliverables
    THEN <<[kind |-> "deliverables_maximum", count |-> Len(subtask.deliverables)]>>
    ELSE IF subtask.status \notin Range(valid_statuses)
    THEN <<[kind |-> "status_invalid", status |-> subtask.status]>>
    ELSE <<>>

Subtask_validate(subtask) ==
    (IF ~matches_dotted_digits(subtask.id, 3)
     THEN <<[kind |-> "subtask_id_format", id |-> subtask.id]>> ELSE <<>>)
    \o (IF ~str_in(S_SingleSession, subtask.title)
        THEN <<[kind |-> "title_single_session"]>> ELSE <<>>)
    \o (IF Len(subtask.deliverables) < MinDeliverables
        THEN <<[kind |-> "deliverables_minimum", count |-> Len(subtask.deliverables)]>>
        ELSE IF Len(subtask.deliverables) > MaxDeliverables
        THEN <<[kind |-> "deliverables_maximum", count |-> Len(subtask.deliverables)]>>
        ELSE <<>>)
    \o (IF subtask.status \notin Range(valid_statuses)
        THEN <<[kind |-> "status_invalid", status |-> subtask.status]>> ELSE <<>>)

\* [f"{label} {id}: {error}" for error in entity_errors]
prefixed(label, id, entity_errors) ==
    [k \in 1..Len(entity_errors) |->
        [kind |-> label, id |-> id, error |-> entity_errors[k]]]

RECURSIVE subtasks_errors(_, _)
subtasks_errors(subtasks, i) ==
    IF i > Len(subtasks) THEN <<>>
    ELSE prefixed("Subtask", subtasks[i].id, Subtask_validate(subtasks[i]))
         \o subtasks_errors(subtasks, i + 1)

Task_validate(task) ==
    (IF ~matches_dotted_digits(task.id, 2)
     THEN <<[kind |-> "task_id_format", id |-> task.id]>> ELSE <<>>)
    \o (IF Len(task.subtasks) = 0
        THEN <<[kind |-> "task_without_subtasks", id |-> task.id]>> ELSE <<>>)
    \o subtasks_errors(task.subtasks, 1)

RECURSIVE tasks_errors(_, _)
tasks_errors(tasks, i) ==
    IF i > Len(tasks) THEN <<>>
    ELSE prefixed("Task", tasks[i].id, Task_validate(tasks[i]))
         \o tasks_errors(tasks, i + 1)

\* variant that accepts a phase without tasks
Phase_validate_tasks_optional(phase) ==
    (IF ~str_isdigit(phase.id)
     THEN <<[kind |-> "phase_id_number", id |-> phase.id]>> ELSE <<>>)
    \o (IF phase.id = S_zero /\ ~str_in(S_Foundation, phase.title)
        THEN <<[kind |-> "phase_0_title", title |-> phase.title]>> ELSE <<>>)
    \o tasks_errors(phase.tasks, 1)

Phase_validate(phase) ==
    (IF ~str_isdigit(phase.id)
     THEN <<[kind |-> "phase_id_number", id |-> phase.id]>> ELSE <<>>)
    \o (IF phase.id = S_zero /\ ~str_in(S_Foundation, phase.title)
        THEN <<[kind |-> "phase_0_title", title |-> phase.title]>> ELSE <<>>)
    \o (IF Len(phase.tasks) = 0
        THEN <<[kind |-> "phase_without_tasks", id |-> phase.id]>> ELSE <<>>)
    \o tasks_errors(phase.tasks, 1)

RECURSIVE phases_errors(_, _)
phases_errors(phases, i) ==
    IF i > Len(phases) THEN <<>>
    ELSE Phase_validate(phases[i]) \o phases_errors(phases, i + 1)

TechStack_validate(stack) ==
    IF is_blank(stack.language) THEN <<[kind |-> "language_required"]>> ELSE <<>>

\* the subtasks of the plan in phase, task, subtask order
RECURSIVE subtasks_of_tasks(_, _)
subtasks_of_tasks(tasks, i) ==
    IF i > Len(tasks) THEN <<>>
    ELSE tasks[i].subtasks \o subtasks_of_tasks(tasks, i + 1)

RECURSIVE subtasks_of_phases(_, _)
subtasks_of_phases(phases, i) ==
    IF i > Len(phases) THEN <<>>
    ELSE subtasks_of_tasks(phases[i].tasks, 1) \o subtasks_of_phases(phases, i + 1)

all_subtasks(p) ==
    LET listed == subtasks_of_phases(p.phases, 1)
    IN  [k \in 1..Len(listed) |->
            [id |-> listed[k].id, prerequisites |-> listed[k].prerequisites]]

DevelopmentPlan_validate(p) ==
    (IF is_blank(p.project_name) THEN <<[kind |-> "project_name_required"]>> ELSE <<>>)
    \o (IF Len(p.phases) = 0 THEN <<[kind |-> "plan_without_phases"]>> ELSE <<>>)
    \o phases_errors(p.phases, 1)
    \o (IF p.tech_stack # None
        THEN [k \in 1..Len(TechStack_validate(p.tech_stack)) |->
                 [kind |-> "TechStack", error |-> TechStack_validate(p.tech_stack)[k]]]
        ELSE <<>>)
    \o validate_prerequisites(all_subtasks(p))
    \o validate_circular_dependencies(all_subtasks(p))

is_valid_structure_only(p) ==
    \A k \in 1..Len(DevelopmentPlan_validate(p)) :
        DevelopmentPlan_validate(p)[k].kind \in {"dangling", "cycle"}

\* DevelopmentPlan.is_valid
DevelopmentPlan_is_valid(p) == Len(DevelopmentPlan_validate(p)) = 0

\* values of a well-formed plan
GoodName == <<"P">>
GoodStack == [language |-> <<"P", "y">>]
GoodTitle == <<"M", " ">> \o S_SingleSession
S_dot == <<".">>
GoodPhaseId(p) == str_int(p - 1)
GoodPhaseTitle(p) == IF p = 1 THEN S_Foundation ELSE P_Core
GoodTaskId(p, t) == GoodPhaseId(p) \o S_dot \o str_int(t)
GoodSubtaskId(p, t, s) == GoodTaskId(p, t) \o S_dot \o str_int(s)
Deliverables(n) == [i \in 1..n |-> <<"d">>]

GoodSubtask(p, t, s) ==
    [id |-> GoodSubtaskId(p, t, s), title |-> GoodTitle,
     deliverables |-> Deliverables(MinDeliverables), prerequisites |-> <<>>,
     status |-> S_pending]

GoodTask(p, t, subtask_count) ==
    [id |-> GoodTaskId(p, t), title |-> <<"T">>,
     subtasks |-> [s \in 1..subtask_count |-> GoodSubtask(p, t, s)]]

GoodPhase(p, subtask_counts) ==
    [id |-> GoodPhaseId(p), title |-> GoodPhaseTitle(p),
     tasks |-> [t \in 1..Len(subtask_counts) |-> GoodTask(p, t, subtask_counts[t])]]

\* shape[p][t] is the number of subtasks of task t of phase p
GoodPlan(shape) ==
    [project_name |-> GoodName, tech_stack |-> GoodStack,
     phases |-> [p \in 1..Len(shape) |-> GoodPhase(p, shape[p])]]

PlanShapes ==
    {<<>>, <<<<>>>>, <<<<0>>>>, <<<<1>>>>, <<<<2>>>>, <<<<1>>, <<1>>>>}

\* the positions the shapes have: phases, tasks of a phase, subtasks of a task
PhaseIndexes == UNION {1..Len(shape) : shape \in PlanShapes}
TaskIndexes ==
    UNION {UNION {1..Len(shape[p]) : p \in 1..Len(shape)} : shape \in PlanShapes}
SubtaskIndexes ==
    UNION {UNION {UNION {1..shape[p][t] : t \in 1..Len(shape[p])} : p \in 1..Len(shape)} :
               shape \in PlanShapes}

\* values that break a rule, and other values a field may take
BlankNames == {<<>>, <<" ">>}
OtherStacks == {None, [language |-> <<" ">>]}
BadPhaseIds == {<<"x">>, <<>>}
BadTaskIds == {<<"0">>, <<"a", ".", "1">>}
BadSubtaskIds == {<<"0", ".", "1">>, <<"0", ".", "1", ".", "x">>}
BadTitle == <<"M">>
BadDeliverables == {Deliverables(MinDeliverables - 1), Deliverables(MaxDeliverables + 1)}
BadStatus == <<"d", "o", "n", "e">>
MissingId == <<"9", ".", "9", ".", "9">>
PrerequisiteIds == {GoodSubtaskId(1, 1, 1), GoodSubtaskId(1, 1, 2), MissingId}

PhaseAt(p) == dev_plan.phases[p]
TaskAt(p, t) == dev_plan.phases[p].tasks[t]
SubtaskAt(p, t, s) == dev_plan.phases[p].tasks[t].subtasks[s]

PhaseSlots == 1..Len(dev_plan.phases)
TaskSlots == UNION {{<<p, t>> : t \in 1..Len(PhaseAt(p).tasks)} : p \in PhaseSlots}
SubtaskSlots ==
    UNION {{<<x[1], x[2], s>> : s \in 1..Len(TaskAt(x[1], x[2]).subtasks)} : x \in TaskSlots}

\* number of fields that differ from the well-formed plan of the same shape
Deviations ==
    (IF dev_plan.project_name # GoodName THEN 1 ELSE 0)
    + (IF dev_plan.tech_stack # GoodStack THEN 1 ELSE 0)
    + Cardinality({p \in PhaseSlots : PhaseAt(p).id # GoodPhaseId(p)})
    + Cardinality({p \in PhaseSlots : PhaseAt(p).title # GoodPhaseTitle(p)})
    + Cardinality({x \in TaskSlots : TaskAt(x[1], x[2]).id # GoodTaskId(x[1], x[2])})
    + Cardinality({x \in SubtaskSlots :
           SubtaskAt(x[1], x[2], x[3]).id # GoodSubtaskId(x[1], x[2], x[3])})
    + Cardinality({x \in SubtaskSlots : SubtaskAt(x[1], x[2], x[3]).title # GoodTitle})
    + Cardinality({x \in SubtaskSlots :
           SubtaskAt(x[1], x[2], x[3]).deliverables # Deliverables(MinDeliverables)})
    + Cardinality({x \in SubtaskSlots : SubtaskAt(x[1], x[2], x[3]).status # S_pending})
    + Cardinality({x \in SubtaskSlots : SubtaskAt(x[1], x[2], x[3]).prerequisites # <<>>})

\* the plan changed: what was returned for the old plan is gone
Changed(new_plan) ==
    /\ Deviations < MaxDeviations
    /\ dev_plan' = new_plan
    /\ plan_errors' = NoResult
    /\ plan_is_valid' = NoResult
    /\ UNCHANGED validateFrame

SetProjectName(name) ==
    /\ dev_plan.project_name = GoodName
    /\ Changed([dev_plan EXCEPT !.project_name = name])

SetTechStack(stack) ==
    /\ dev_plan.tech_stack = GoodStack
    /\ Changed([dev_plan EXCEPT !.tech_stack = stack])

SetPhaseId(p, id) ==
    /\ p \in PhaseSlots
    /\ PhaseAt(p).id = GoodPhaseId(p)
    /\ Changed([dev_plan EXCEPT !.phases[p].id = id])

SetPhaseTitle(p, title) ==
    /\ p \in PhaseSlots
    /\ PhaseAt(p).title = GoodPhaseTitle(p)
    /\ title # GoodPhaseTitle(p)
    /\ Changed([dev_plan EXCEPT !.phases[p].title = title])

SetTaskId(p, t, id) ==
    /\ <<p, t>> \in TaskSlots
    /\ TaskAt(p, t).id = GoodTaskId(p, t)
    /\ Changed([dev_plan EXCEPT !.phases[p].tasks[t].id = id])

SetSubtaskId(p, t, s, id) ==
    /\ <<p, t, s>> \in SubtaskSlots
    /\ SubtaskAt(p, t, s).id = GoodSubtaskId(p, t, s)
    /\ Changed([dev_plan EXCEPT !.phases[p].tasks[t].subtasks[s].id = id])

SetSubtaskTitle(p, t, s, title) ==
    /\ <<p, t, s>> \in SubtaskSlots
    /\ SubtaskAt(p, t, s).title = GoodTitle
    /\ Changed([dev_plan EXCEPT !.phases[p].tasks[t].subtasks[s].title = title])

SetDeliverables(p, t, s, deliverables) ==
    /\ <<p, t, s>> \in SubtaskSlots
    /\ SubtaskAt(p, t, s).deliverables = Deliverables(MinDeliverables)
    /\ Changed([dev_plan EXCEPT !.phases[p].tasks[t].subtasks[s].deliverables = deliverables])

SetStatus(p, t, s, status) ==
    /\ <<p, t, s>> \in SubtaskSlots
    /\ SubtaskAt(p, t, s).status = S_pending
    /\ Changed([dev_plan EXCEPT !.phases[p].tasks[t].subtasks[s].status = status])

SetPrerequisites(p, t, s, prerequisites) ==
    /\ <<p, t, s>> \in SubtaskSlots
    /\ SubtaskAt(p, t, s).prerequisites = <<>>
    /\ Changed([dev_plan EXCEPT !.phases[p].tasks[t].subtasks[s].prerequisites = prerequisites])

\* errors = plan.validate(): no field of the plan is assigned
ValidatePlan ==
    /\ plan_errors' = [kind |-> "list", errors |-> DevelopmentPlan_validate(dev_plan)]
    /\ UNCHANGED <<dev_plan, plan_is_valid, validateFrame>>

\* plan.is_valid()
IsValidPlan ==
    /\ plan_is_valid' = [kind |-> "bool", value |-> DevelopmentPlan_is_valid(dev_plan)]
    /\ UNCHANGED <<dev_plan, plan_errors, validateFrame>>

(***************************************************************************)
(* Properties of DevelopmentPlan.validate                                  *)
(***************************************************************************)
PlanValidated == plan_errors # NoResult

InTask(p, t, message) ==
    [kind |-> "Task", id |-> TaskAt(p, t).id, error |-> message]

InSubtask(p, t, s, message) ==
    InTask(p, t, [kind |-> "Subtask", id |-> SubtaskAt(p, t, s).id, error |-> message])

\* every broken rule with the place it is broken at and the message it calls for
BrokenRules ==
    {<<"project_name", 0, 0, 0, [kind |-> "project_name_required"]>> :
        x \in {1} \cap (IF dev_plan.project_name \in BlankNames THEN {1} ELSE {})}
    \cup {<<"phases", 0, 0, 0, [kind |-> "plan_without_phases"]>> :
        x \in {1} \cap (IF dev_plan.phases = <<>> THEN {1} ELSE {})}
    \cup {<<"language", 0, 0, 0,
            [kind |-> "TechStack", error |-> [kind |-> "language_required"]]>> :
        x \in {1} \cap (IF dev_plan.tech_stack = [language |-> <<" ">>] THEN {1} ELSE {})}
    \cup {<<"phase_id", p, 0, 0, [kind |-> "phase_id_number", id |-> PhaseAt(p).id]>> :
        p \in {q \in PhaseSlots : PhaseAt(q).id \in BadPhaseIds}}
    \cup {<<"phase_title", p, 0, 0, [kind |-> "phase_0_title", title |-> PhaseAt(p).title]>> :
        p \in {q \in PhaseSlots : PhaseAt(q).id = <<"0">> /\ PhaseAt(q).title = P_Core}}
    \cup {<<"phase_tasks", p, 0, 0, [kind |-> "phase_without_tasks", id |-> PhaseAt(p).id]>> :
        p \in {q \in PhaseSlots : PhaseAt(q).tasks = <<>>}}
    \cup {<<"task_id", x[1], x[2], 0,
            InTask(x[1], x[2], [kind |-> "task_id_format", id |-> TaskAt(x[1], x[2]).id])>> :
        x \in {y \in TaskSlots : TaskAt(y[1], y[2]).id \in BadTaskIds}}
    \cup {<<"task_subtasks", x[1], x[2], 0,
            InTask(x[1], x[2],
                   [kind |-> "task_without_subtasks", id |-> TaskAt(x[1], x[2]).id])>> :
        x \in {y \in TaskSlots : TaskAt(y[1], y[2]).subtasks = <<>>}}
    \cup {<<"subtask_id", x[1], x[2], x[3],
            InSubtask(x[1], x[2], x[3],
                      [kind |-> "subtask_id_format", id |-> SubtaskAt(x[1], x[2], x[3]).id])>> :
        x \in {y \in SubtaskSlots : SubtaskAt(y[1], y[2], y[3]).id \in BadSubtaskIds}}
    \cup {<<"subtask_title", x[1], x[2], x[3],
            InSubtask(x[1], x[2], x[3], [kind |-> "title_single_session"])>> :
        x \in {y \in SubtaskSlots : SubtaskAt(y[1], y[2], y[3]).title = BadTitle}}
    \cup {<<"deliverables", x[1], x[2], x[3],
            InSubtask(x[1], x[2], x[3],
                      [kind |-> IF Len(SubtaskAt(x[1], x[2], x[3]).deliverables) = 2
                                THEN "deliverables_minimum" ELSE "deliverables_maximum",
                       count |-> Len(SubtaskAt(x[1], x[2], x[3]).deliverables)])>> :
        x \in {y \in SubtaskSlots : Len(SubtaskAt(y[1], y[2], y[3]).deliverables) \in {2, 8}}}
    \cup {<<"status", x[1], x[2], x[3],
            InSubtask(x[1], x[2], x[3],
                      [kind |-> "status_invalid", status |-> SubtaskAt(x[1], x[2], x[3]).status])>> :
        x \in {y \in SubtaskSlots : SubtaskAt(y[1], y[2], y[3]).status = BadStatus}}

IsCrossMessage(message) == message.kind \in {"dangling", "cycle"}

Raised(result) == result.kind \notin {"none", "list", "bool"}

C30_ValidPlanHasUniqueSubtaskIds ==
    (PlanValidated /\ plan_errors.errors = <<>>) =>
        LET listed == subtasks_of_phases(dev_plan.phases, 1)
        IN \A i, j \in 1..Len(listed) : i # j => listed[i].id # listed[j].id

(***************************************************************************)
(* generate_plan                                                           *)
(***************************************************************************)
\* messages of _validate_plan_structure
M_ProjectNameRequired == "Project name is required"
M_AtLeastOnePhase == "Plan must have at least one phase"
M_FirstPhaseId == "First phase must have ID '0'"
M_Phase0Title == "Phase 0 should be titled 'Foundation'"
M_TechStackRequired == "Plan must have a tech stack"

\* variant that reads a directory without config.yaml as an empty config
load_template_config_lenient(dirs, name) ==
    LET template == dirs[name] IN
    IF template.config = "invalid"
    THEN [kind |-> "ValueError", message |-> "failed to load template config"]
    ELSE [kind |-> "config",
          default_tech_stack |-> template.default_tech_stack,
          default_phases |-> template.default_phases]

\* load_template_config(template_path)
load_template_config(dirs, name) ==
    LET template == dirs[name] IN
    IF template.config = "missing"
    THEN [kind |-> "FileNotFoundError", message |-> "Template config not found"]
    ELSE IF template.config = "invalid"
    THEN [kind |-> "ValueError", message |-> "failed to load template config"]
    ELSE [kind |-> "config",
          default_tech_stack |-> template.default_tech_stack,
          default_phases |-> template.default_phases]

\* template_path = select_template(brief.project_type)
\* template_config = load_template_config(template_path)
template_config_for(dirs, type) ==
    LET template_path == select_template(dirs, type)
    IN IF template_path.kind # "Path"
       THEN template_path
       ELSE load_template_config(dirs, template_path.name)

\* generate_tech_stack(brief), the template's defaults looked up first
tech_stack_of_brief(b, dirs) ==
    LET template_config == template_config_for(dirs, b.project_type)
    IN IF template_config.kind # "config"
       THEN template_config
       ELSE generate_tech_stack(b.must_use_tech, b.cannot_use_tech,
                                template_config.default_tech_stack)

\* generate_phases(brief), the template's phase names looked up first
phases_of_brief(b, dirs) ==
    LET template_config == template_config_for(dirs, b.project_type)
    IN IF template_config.kind # "config"
       THEN template_config
       ELSE [kind |-> "phases", phases |-> generate_phases(template_config.default_phases)]

\* generate_tasks(brief, phases): an empty task list under every phase id
RECURSIVE generate_tasks(_, _)
generate_tasks(phases, i) ==
    IF i = 0 THEN <<>>
    ELSE dict_set(generate_tasks(phases, i - 1), phases[i].id, <<>>)

\* generate_subtasks(brief, tasks_by_phase): an empty subtask list under
\* every task id of every phase id
generate_subtasks(tasks_by_phase) ==
    [k \in 1..Len(tasks_by_phase) |->
        LET phase_id == tasks_by_phase[k][1]
            tasks == tasks_by_phase[k][2]
        IN <<phase_id, [t \in 1..Len(tasks) |-> <<tasks[t].id, <<>>>>]>>]

\* variant that does not look at the project name
validate_plan_structure_phases_only(p) ==
    (IF Len(p.phases) = 0 THEN <<M_AtLeastOnePhase>> ELSE <<>>)
        \o (IF Len(p.phases) > 0 /\ p.phases[1].id # S_zero
            THEN <<M_FirstPhaseId>> ELSE <<>>)
        \o (IF Len(p.phases) > 0 /\ ~str_in(S_Foundation, p.phases[1].title)
            THEN <<M_Phase0Title>> ELSE <<>>)
        \o (IF p.tech_stack = None THEN <<M_TechStackRequired>> ELSE <<>>)

\* _validate_plan_structure(plan)
validate_plan_structure(p) ==
    (IF is_blank(p.project_name) THEN <<M_ProjectNameRequired>> ELSE <<>>)
        \o (IF Len(p.phases) = 0 THEN <<M_AtLeastOnePhase>> ELSE <<>>)
        \o (IF Len(p.phases) > 0 /\ p.phases[1].id # S_zero
            THEN <<M_FirstPhaseId>> ELSE <<>>)
        \o (IF Len(p.phases) > 0 /\ ~str_in(S_Foundation, p.phases[1].title)
            THEN <<M_Phase0Title>> ELSE <<>>)
        \o (IF p.tech_stack = None THEN <<M_TechStackRequired>> ELSE <<>>)

\* generate_plan(brief)
generate_plan(b, dirs) ==
    LET tech_stack == tech_stack_of_brief(b, dirs) IN
    IF tech_stack.kind # "TechStack" THEN tech_stack
    ELSE LET generated == phases_of_brief(b, dirs) IN
    IF generated.kind # "phases" THEN generated
    ELSE LET phases == generated.phases
             tasks_by_phase == generate_tasks(phases, Len(phases))
             subtasks_by_phase_task == generate_subtasks(tasks_by_phase)
             assembled == [project_name |-> b.project_name,
                           phases |-> phases,
                           tech_stack |-> tech_stack]
             validation_errors == validate_plan_structure(assembled)
         IN IF validation_errors # <<>>
            THEN [kind |-> "ValueError",
                  message |-> "Plan validation failed",
                  errors |-> validation_errors]
            ELSE [kind |-> "DevelopmentPlan",
                  project_name |-> assembled.project_name,
                  phases |-> assembled.phases,
                  tech_stack |-> assembled.tech_stack]

\* a template directory together with what its config.yaml declares
NoTemplate ==
    [dir |-> FALSE, config |-> "missing", project_types |-> <<>>,
     default_tech_stack |-> <<>>, default_phases |-> <<>>]
TemplateWithoutConfig ==
    [dir |-> TRUE, config |-> "missing", project_types |-> <<>>,
     default_tech_stack |-> <<>>, default_phases |-> <<>>]
TemplateWithInvalidConfig ==
    [dir |-> TRUE, config |-> "invalid", project_types |-> <<>>,
     default_tech_stack |-> <<>>, default_phases |-> <<>>]
Template(types, tech_stack_defaults, phase_names) ==
    [dir |-> TRUE, config |-> "ok", project_types |-> types,
     default_tech_stack |-> tech_stack_defaults, default_phases |-> phase_names]

NoDefaults ==
    [language |-> Absent, framework |-> Absent, database |-> Absent,
     cache |-> Absent, deployment |-> Absent, packaging |-> Absent]
CliDefaults ==
    [language |-> T_Go, framework |-> Absent, database |-> Absent,
     cache |-> T_Redis, deployment |-> T_DockerAWS, packaging |-> Absent]

\* what each directory of the model's installations may hold
TemplateChoices ==
    [name \in TemplateDirs |->
        IF name = D_base
        THEN {NoTemplate, TemplateWithoutConfig, TemplateWithInvalidConfig,
              Template(<<>>, defaults_of(NoDefaults), <<>>)}
        ELSE IF name = D_cli
        THEN {NoTemplate,
              Template(<<Pat_CLITool>>, defaults_of(CliDefaults), <<P_Core, S_Foundation, P_API>>)}
        ELSE IF name = D_api
        THEN {NoTemplate, TemplateWithInvalidConfig}
        ELSE {NoTemplate}]

InstallableTemplates == UNION {TemplateChoices[name] : name \in TemplateDirs}

\* the briefs of the model
BriefNames == {GoodName} \cup BlankNames
BriefTypes == {<<"C", "L", "I">>, <<"g", "a", "m", "e">>}
ExcludedNames == <<T_redis_lower, T_docker_lower, T_GO_upper>>

EmptyBrief ==
    [project_name |-> GoodName, project_type |-> <<"C", "L", "I">>,
     must_use_tech |-> <<>>, cannot_use_tech |-> <<>>]

\* brief.project_name = name
BriefName(name) ==
    /\ name # project_brief.project_name
    /\ project_brief' = [project_brief EXCEPT !.project_name = name]
    /\ generate_result' = NoResult
    /\ returned_errors' = NoResult
    /\ UNCHANGED <<installation, generateFrame>>

\* brief.project_type = type
BriefType(type) ==
    /\ type # project_brief.project_type
    /\ project_brief' = [project_brief EXCEPT !.project_type = type]
    /\ generate_result' = NoResult
    /\ returned_errors' = NoResult
    /\ UNCHANGED <<installation, generateFrame>>

\* brief.must_use_tech gets one more entry
BriefMustUse(tech) ==
    /\ Len(project_brief.must_use_tech) < MaxMustUse
    /\ project_brief' = [project_brief EXCEPT !.must_use_tech = Append(@, tech)]
    /\ generate_result' = NoResult
    /\ returned_errors' = NoResult
    /\ UNCHANGED <<installation, generateFrame>>

\* brief.cannot_use_tech gets the k-th excluded name as one more entry
BriefCannotUse(k) ==
    /\ Len(project_brief.cannot_use_tech) < MaxCannotUse
    /\ \A j \in 1..Len(project_brief.cannot_use_tech) :
          \E before \in 1..(k - 1) : ExcludedNames[before] = project_brief.cannot_use_tech[j]
    /\ project_brief' = [project_brief EXCEPT !.cannot_use_tech = Append(@, ExcludedNames[k])]
    /\ generate_result' = NoResult
    /\ returned_errors' = NoResult
    /\ UNCHANGED <<installation, generateFrame>>

\* the templates directory is changed under one name
InstallTemplate(name, template) ==
    /\ template \in TemplateChoices[name]
    /\ template # installation[name]
    /\ installation' = [installation EXCEPT ![name] = template]
    /\ generate_result' = NoResult
    /\ returned_errors' = NoResult
    /\ UNCHANGED <<project_brief, generateFrame>>

\* plan = generate_plan(brief)
GeneratePlan ==
    /\ generate_result = NoResult
    /\ generate_result' = generate_plan(project_brief, installation)
    /\ UNCHANGED <<project_brief, installation, returned_errors, generateFrame>>

\* the caller validates the plan it got:
\* plan.validate(), plan.is_valid(), plan.validate_prerequisites(),
\* plan.validate_circular_dependencies()
ValidateReturnedPlan ==
    /\ generate_result.kind = "DevelopmentPlan"
    /\ returned_errors = NoResult
    /\ returned_errors' =
          [kind |-> "validation",
           errors |-> DevelopmentPlan_validate(generate_result),
           is_valid |-> DevelopmentPlan_is_valid(generate_result),
           prerequisites |-> validate_prerequisites(all_subtasks(generate_result)),
           circular |-> validate_circular_dependencies(all_subtasks(generate_result))]
    /\ UNCHANGED <<project_brief, installation, generate_result, generateFrame>>

(***************************************************************************)
(* Properties of generate_plan                                             *)
(***************************************************************************)
PlanGenerated == generate_result.kind # "none"

PlanReturned == generate_result.kind = "DevelopmentPlan"

PlanRaised == PlanGenerated /\ ~PlanReturned

\* the failure is the one raised after the checks on the assembled plan,
\* and it reports at least one of the given checks
FailedOn(messages) ==
    /\ generate_result.kind = "ValueError"
    /\ "errors" \in DOMAIN generate_result
    /\ generate_result.errors # <<>>
    /\ Range(generate_result.errors) \subseteq messages

\* the directories select_template looks at
Searched ==
    {name \in TemplateDirs :
        /\ installation[name].dir
        /\ installation[name].config # "missing"
        /\ name[1] # "_"}

Unloadable(name) == installation[name].config = "invalid"

\* the directory's config loads and declares a type that contains the project_brief's
DeclaresBriefType(name) ==
    /\ installation[name].config = "ok"
    /\ \E k \in 1..Len(installation[name].project_types) :
          str_in(str_strip(str_lower(project_brief.project_type)),
                 str_strip(str_lower(installation[name].project_types[k])))

\* the first directory, in name order, that ends the search of select_template
EndsSearch(name) ==
    /\ name \in Searched
    /\ Unloadable(name) \/ DeclaresBriefType(name)
    /\ \A earlier \in Searched :
          str_less(earlier, name) => ~Unloadable(earlier) /\ ~DeclaresBriefType(earlier)

\* select_template finds no template for the brief
NoTemplateFound ==
    \/ \E name \in Searched : EndsSearch(name) /\ Unloadable(name)
    \/ /\ \A name \in Searched : ~EndsSearch(name)
       /\ ~installation[D_base].dir

\* the base directory is the fallback and holds no config.yaml
FallbackWithoutConfig ==
    /\ \A name \in Searched : ~EndsSearch(name)
    /\ installation[D_base].dir
    /\ installation[D_base].config = "missing"

\* some must-use entry equals some cannot-use entry when both are lowercased
BriefConflict ==
    \E i \in 1..Len(project_brief.must_use_tech), j \in 1..Len(project_brief.cannot_use_tech) :
        str_lower(project_brief.must_use_tech[i]) = str_lower(project_brief.cannot_use_tech[j])

C20_ReturnedPlanIsWellFormed ==
    /\ PlanReturned =>
          /\ ~is_blank(generate_result.project_name)
          /\ generate_result.project_name = project_brief.project_name
          /\ generate_result.tech_stack # None
          /\ generate_result.tech_stack.kind = "TechStack"
          /\ Len(generate_result.phases) >= 1
          /\ \A i \in 1..Len(generate_result.phases) :
                generate_result.phases[i].id = str_int(i - 1)
          /\ generate_result.phases[1].id = <<"0">>
          /\ generate_result.phases[1].title = S_Foundation
    /\ PlanGenerated /\ is_blank(project_brief.project_name) => ~PlanReturned

\* a plan of three phases returned from a template that lists Foundation second
C20_Witness ==
    /\ PlanReturned
    /\ Len(generate_result.phases) = 3
    /\ installation[D_cli].default_phases[2] = S_Foundation
    /\ project_brief.must_use_tech # <<>>

(***************************************************************************)
(* extract_quality_requirements                                            *)
(***************************************************************************)
\* bound of the lines of a quality section
MaxQualityLines == 2

\* string literals of extract_quality_requirements
S_Performance == <<"P", "e", "r", "f", "o", "r", "m", "a", "n", "c", "e">>
S_Security == <<"S", "e", "c", "u", "r", "i", "t", "y">>
S_Scalability == <<"S", "c", "a", "l", "a", "b", "i", "l", "i", "t", "y">>
S_colon == <<":">>

\* s.replace(old, ""), old not empty
RECURSIVE str_remove(_, _)
str_remove(s, old) ==
    IF Len(s) < Len(old) THEN s
    ELSE IF SubSeq(s, 1, Len(old)) = old
    THEN str_remove(SubSeq(s, Len(old) + 1, Len(s)), old)
    ELSE <<s[1]>> \o str_remove(Tail(s), old)

\* line.split(":", 1) of a line that holds a colon
split_once(line, sep) ==
    LET k == CHOOSE i \in 1..Len(line) :
                 line[i] = sep /\ \A j \in 1..(i - 1) : line[j] # sep
    IN <<SubSeq(line, 1, k - 1), SubSeq(line, k + 1, Len(line))>>

\* parts[0].strip().replace("**", "").replace("-", "").strip()
clean_field(part) ==
    str_strip(str_remove(str_remove(str_strip(part), S_stars), S_dash))

\* the loop over the lines of one section
RECURSIVE key_value_pairs(_, _, _)
key_value_pairs(lines, i, found) ==
    IF i > Len(lines) THEN found
    ELSE LET line == lines[i] IN
         IF str_in(S_stars, line) /\ str_in(S_colon, line)
         THEN LET parts == split_once(line, ":")
                  field == clean_field(parts[1])
                  value == str_strip(parts[2])
              IN IF field # <<>> /\ value # <<>>
                 THEN key_value_pairs(lines, i + 1, dict_set(found, field, value))
                 ELSE key_value_pairs(lines, i + 1, found)
         ELSE key_value_pairs(lines, i + 1, found)

\* sections.get(name, "")
section_get(sections, name) ==
    IF dict_has(sections, name) THEN dict_get(sections, name) ELSE <<>>

extract_quality_requirements(sections) ==
    LET pairs_of(name) ==
            key_value_pairs(str_split(section_get(sections, name), "\n"), 1, <<>>)
    IN [kind |-> "quality",
        performance |-> pairs_of(S_Performance),
        security |-> pairs_of(S_Security),
        scalability |-> pairs_of(S_Scalability)]

\* the lines of the model's quality sections
Q_pair == <<"-", " ", "*", "*", "T", "*", "*", ":", " ", "5">>
Q_hyphen_in_key == <<"-", " ", "*", "*", "T", "-", "o", "*", "*", ":", " ", "5">>
Q_no_marker == <<"*", "*", "U", "*", "*", ":", " ", "6", " ">>
Q_two_colons == <<"*", "*", "U", "*", "*", ":", " ", "a", ":", "b">>
Q_no_value == <<"-", " ", "*", "*", "T", "*", "*", ":">>
Q_no_stars == <<"T", ":", " ", "5">>
Q_no_colon == <<"-", " ", "*", "*", "T", "*", "*", " ", "5">>

QualityLines ==
    {Q_pair, Q_hyphen_in_key, Q_no_marker, Q_two_colons, Q_no_value, Q_no_stars,
     Q_no_colon}

QualitySections == {S_Performance, S_Security, S_Scalability}

\* lines joined by "\n"; no line gives the empty section
quality_text(lines) == str_join(S_newline, lines)

\* the section of the document gets one more line
AppendQualityLine(line) ==
    /\ Len(quality_lines) < MaxQualityLines
    /\ quality_lines' = Append(quality_lines, line)
    /\ quality_result' = NoResult
    /\ UNCHANGED <<quality_section, qualityFrame>>

\* quality = extract_quality_requirements(sections)
ExtractQualityRequirements ==
    /\ quality_result = NoResult
    /\ quality_result' =
          extract_quality_requirements(<<<<quality_section, quality_text(quality_lines)>>>>)
    /\ UNCHANGED <<quality_lines, quality_section, qualityFrame>>

(***************************************************************************)
(* Properties of extract_quality_requirements                              *)
(***************************************************************************)
QualityExtracted == quality_result.kind # "none"

\* the dictionary returned for the section the lines stand in
SectionPairs ==
    IF quality_section = S_Performance THEN quality_result.performance
    ELSE IF quality_section = S_Security THEN quality_result.security
    ELSE quality_result.scalability

HoldsBothMarkers(line) ==
    (\E i \in 1..(Len(line) - 1) : line[i] = "*" /\ line[i + 1] = "*")
        /\ (\E i \in 1..Len(line) : line[i] = ":")

FirstColon(line) ==
    CHOOSE i \in 1..Len(line) : line[i] = ":" /\ \A j \in 1..(i - 1) : line[j] # ":"

\* the text before the first colon without its '**' markers and without the
\* '-' in front of it, every other character kept
KeyOf(line) ==
    LET before == str_strip(SubSeq(line, 1, FirstColon(line) - 1))
        unmarked == IF Len(before) > 0 /\ before[1] = "-"
                    THEN str_strip(Tail(before)) ELSE before
    IN str_strip(SelectSeq(unmarked, LAMBDA c : c # "*"))

ValueOf(line) == str_strip(SubSeq(line, FirstColon(line) + 1, Len(line)))

\* C22: every line holding both '**' and ':' yields a pair: its key is the
\* text before the first ':' without the '**' markers and the leading '-',
\* nothing else changed, and its value is the trimmed text after the first
\* ':' (of the last such line, when lines share a key).
C22_PairForEveryMarkedLine ==
    QualityExtracted =>
        \A i \in 1..Len(quality_lines) :
            HoldsBothMarkers(quality_lines[i]) =>
                /\ dict_has(SectionPairs, KeyOf(quality_lines[i]))
                /\ (\A j \in (i + 1)..Len(quality_lines) :
                        HoldsBothMarkers(quality_lines[j]) =>
                            KeyOf(quality_lines[j]) # KeyOf(quality_lines[i]))
                    => dict_get(SectionPairs, KeyOf(quality_lines[i]))
                            = ValueOf(quality_lines[i])

ReturnedPlanValidated == returned_errors.kind = "validation"

\* C28: no plan generate_plan returns passes full validation: every phase has
\* an empty task list, validate() holds the 'must have at least one task'
\* message of every phase, is_valid() is false, and the prerequisite and
\* circular-dependency checks report nothing.
C28_ReturnedPlanNeverValid ==
    ReturnedPlanValidated =>
        /\ \A i \in 1..Len(generate_result.phases) :
              /\ generate_result.phases[i].tasks = <<>>
              /\ \E k \in 1..Len(returned_errors.errors) :
                    returned_errors.errors[k]
                        = [kind |-> "phase_without_tasks", id |-> generate_result.phases[i].id]
        /\ returned_errors.is_valid = FALSE
        /\ returned_errors.prerequisites = <<>>
        /\ returned_errors.circular = <<>>

\* a returned plan of three phases, validated: three messages about tasks
C28_Witness ==
    /\ ReturnedPlanValidated
    /\ Len(generate_result.phases) = 3
    /\ Len(returned_errors.errors) = 3

IdleTech ==
    /\ must_use_tech = <<>>
    /\ cannot_use_tech = <<>>
    /\ template_defaults = <<>>
    /\ tech_result = NoResult

IdlePhase ==
    /\ default_phases = <<>>
    /\ phases_result = NoResult

IdleSelect ==
    /\ templates = [name \in TemplateDirs |-> NotInstalled]
    /\ project_type = <<>>
    /\ select_result = NoResult

IdlePlan ==
    /\ plan = <<>>
    /\ errors = NoResult

IdleConvert ==
    /\ basic_info = EmptyBasicInfo
    /\ convert_result = NoResult

IdleField ==
    /\ field_lines = <<>>
    /\ queried_name = F_Goal
    /\ field_result = NoResult

IdleInfo ==
    /\ info_lines = <<>>
    /\ type_segments = <<>>
    /\ info_result = NoResult

IdleMarkdown ==
    /\ doc_lines = <<>>
    /\ parse_result = NoResult

IdleValidate ==
    /\ dev_plan = GoodPlan(<<>>)
    /\ plan_errors = NoResult
    /\ plan_is_valid = NoResult

IdleGenerate ==
    /\ project_brief = EmptyBrief
    /\ installation = [name \in TemplateDirs |-> NoTemplate]
    /\ generate_result = NoResult
    /\ returned_errors = NoResult

IdleQuality ==
    /\ quality_lines = <<>>
    /\ quality_section = S_Performance
    /\ quality_result = NoResult

IdleInput ==
    IdleConvert /\ IdleField /\ IdleInfo /\ IdleMarkdown /\ IdleValidate /\ IdleGenerate /\ IdleQuality

Init ==
    /\ plan = <<>>
    /\ errors = NoResult
    /\ IdleTech /\ IdlePhase /\ IdleSelect /\ IdleInput

Next ==
    \/ \E id \in SubtaskIds : AppendSubtask(id)
    \/ \E i \in 1..MaxSubtasks, prereq \in SubtaskIds : AddPrerequisite(i, prereq)
    \/ Validate

Spec == Init /\ [][Next]_vars

InitTech ==
    /\ must_use_tech = <<>>
    /\ cannot_use_tech = <<>>
    /\ template_defaults \in {defaults_of(c) : c \in DefaultChoices}
    /\ tech_result = NoResult
    /\ IdlePlan /\ IdlePhase /\ IdleSelect /\ IdleInput

NextTech ==
    \/ \E tech \in MustUseNames : AddMustUse(tech)
    \/ \E k \in 1..Len(CannotUseCatalogue) : AddCannotUse(k)
    \/ GenerateTechStack

SpecTech == InitTech /\ [][NextTech]_vars

InitPhase ==
    /\ default_phases = <<>>
    /\ phases_result = NoResult
    /\ IdlePlan /\ IdleTech /\ IdleSelect /\ IdleInput

NextPhase ==
    \/ \E name \in PhaseNames : AppendPhaseName(name)
    \/ GeneratePhases

SpecPhase == InitPhase /\ [][NextPhase]_vars

InitSelect ==
    /\ templates \in {dirs \in [TemplateDirs -> DirStates \cup DraftStates] :
                          /\ dirs[D_draft] \in DraftStates
                          /\ \A name \in TemplateDirs \ {D_draft} : dirs[name] \in DirStates}
    /\ project_type \in ProjectTypes
    /\ select_result = NoResult
    /\ IdlePlan /\ IdleTech /\ IdlePhase /\ IdleInput

NextSelect ==
    \/ SelectTemplate
    \/ \E type \in ProjectTypes : ChangeProjectType(type)

SpecSelect == InitSelect /\ [][NextSelect]_vars

IdleCore == IdlePlan /\ IdleTech /\ IdlePhase /\ IdleSelect

InitConvert ==
    /\ basic_info = EmptyBasicInfo
    /\ convert_result = NoResult
    /\ IdleCore /\ IdleField /\ IdleInfo /\ IdleMarkdown /\ IdleValidate /\ IdleGenerate /\ IdleQuality

NextConvert ==
    \/ \E name \in StringFields, value \in FieldValues : SetField(name, value)
    \/ \E value \in TeamSizes : SetField("team_size", value)
    \/ \E value \in ProjectTypeScalars \cup {ListValue(<<>>)} : SetField("project_type", value)
    \/ \E item \in ProjectTypeItems : AppendProjectType(item)
    \/ ConvertToProjectBrief

SpecConvert == InitConvert /\ [][NextConvert]_vars

InitField ==
    /\ field_lines = <<>>
    /\ queried_name = F_Goal
    /\ field_result = NoResult
    /\ IdleCore /\ IdleConvert /\ IdleInfo /\ IdleMarkdown /\ IdleValidate /\ IdleGenerate /\ IdleQuality

NextField ==
    \/ \E l \in WrittenLines : AppendLine(l)
    \/ \E name \in QueriedNames : QueryField(name)
    \/ ExtractFieldValue

SpecField == InitField /\ [][NextField]_vars

InitRoundTrip ==
    /\ queried_name \in QueriedNames
    /\ field_lines = <<[marker |-> <<"-", " ">>, name |-> queried_name, value |-> <<>>]>>
    /\ field_result = NoResult
    /\ IdleCore /\ IdleConvert /\ IdleInfo /\ IdleMarkdown /\ IdleValidate /\ IdleGenerate /\ IdleQuality

NextRoundTrip ==
    \/ \E c \in ValueChars : AppendValueChar(c)
    \/ ExtractFieldValue

SpecRoundTrip == InitRoundTrip /\ [][NextRoundTrip]_vars

InitBasicInfo ==
    /\ info_lines \in {<<>>, <<ProjectNameLine>>}
    /\ type_segments = <<>>
    /\ info_result = NoResult
    /\ IdleCore /\ IdleConvert /\ IdleField /\ IdleMarkdown /\ IdleValidate /\ IdleGenerate /\ IdleQuality

NextBasicInfo ==
    \/ \E box \in Boxes, label \in Labels : AppendSegment(box, label)
    \/ ExtractBasicInfo

SpecBasicInfo == InitBasicInfo /\ [][NextBasicInfo]_vars

InitMarkdown ==
    /\ doc_lines = <<>>
    /\ parse_result = NoResult
    /\ IdleCore /\ IdleConvert /\ IdleField /\ IdleInfo /\ IdleValidate /\ IdleGenerate /\ IdleQuality

NextMarkdown ==
    \/ \E line \in DocLines : AppendDocLine(line)
    \/ ParseMarkdownContent

SpecMarkdown == InitMarkdown /\ [][NextMarkdown]_vars

InitValidate ==
    /\ dev_plan \in {GoodPlan(shape) : shape \in PlanShapes}
    /\ plan_errors = NoResult
    /\ plan_is_valid = NoResult
    /\ IdleCore /\ IdleConvert /\ IdleField /\ IdleInfo /\ IdleMarkdown /\ IdleGenerate /\ IdleQuality

NextValidate ==
    \/ \E name \in BlankNames : SetProjectName(name)
    \/ \E stack \in OtherStacks : SetTechStack(stack)
    \/ \E p \in PhaseIndexes, id \in BadPhaseIds : SetPhaseId(p, id)
    \/ \E p \in PhaseIndexes : SetPhaseTitle(p, P_Core)
    \/ \E p \in PhaseIndexes, t \in TaskIndexes, id \in BadTaskIds : SetTaskId(p, t, id)
    \/ \E p \in PhaseIndexes, t \in TaskIndexes, s \in SubtaskIndexes, id \in BadSubtaskIds :
           SetSubtaskId(p, t, s, id)
    \/ \E p \in PhaseIndexes, t \in TaskIndexes, s \in SubtaskIndexes :
           SetSubtaskTitle(p, t, s, BadTitle)
    \/ \E p \in PhaseIndexes, t \in TaskIndexes, s \in SubtaskIndexes,
              deliverables \in BadDeliverables : SetDeliverables(p, t, s, deliverables)
    \/ \E p \in PhaseIndexes, t \in TaskIndexes, s \in SubtaskIndexes :
           SetStatus(p, t, s, BadStatus)
    \/ \E p \in PhaseIndexes, t \in TaskIndexes, s \in SubtaskIndexes, id \in PrerequisiteIds :
           SetPrerequisites(p, t, s, <<id>>)
    \/ ValidatePlan
    \/ IsValidPlan

SpecValidate == InitValidate /\ [][NextValidate]_vars


InitGenerate ==
    /\ project_brief = EmptyBrief
    /\ installation = [name \in TemplateDirs |-> NoTemplate]
    /\ generate_result = NoResult
    /\ returned_errors = NoResult
    /\ IdleCore /\ IdleConvert /\ IdleField /\ IdleInfo /\ IdleMarkdown /\ IdleValidate /\ IdleQuality

NextGenerate ==
    \/ \E name \in BriefNames : BriefName(name)
    \/ \E type \in BriefTypes : BriefType(type)
    \/ \E tech \in MustUseNames : BriefMustUse(tech)
    \/ \E k \in 1..Len(ExcludedNames) : BriefCannotUse(k)
    \/ \E name \in TemplateDirs, template \in InstallableTemplates : InstallTemplate(name, template)
    \/ GeneratePlan
    \/ ValidateReturnedPlan

SpecGenerate == InitGenerate /\ [][NextGenerate]_vars

InitFamily ==
    /\ must_use_tech = <<>>
    /\ cannot_use_tech = <<>>
    /\ template_defaults \in {defaults_of(LanguageOnly(l)) : l \in LanguageDefaults}
    /\ tech_result = NoResult
    /\ IdlePlan /\ IdlePhase /\ IdleSelect /\ IdleInput

NextFamily ==
    \/ \E k \in 1..Len(CannotUseCatalogue) : AddCannotUse(k)
    \/ GenerateTechStack

SpecFamily == InitFamily /\ [][NextFamily]_vars

InitQuality ==
    /\ quality_lines = <<>>
    /\ quality_section \in QualitySections
    /\ quality_result = NoResult
    /\ IdleCore /\ IdleConvert /\ IdleField /\ IdleInfo /\ IdleMarkdown /\ IdleValidate /\ IdleGenerate

NextQuality ==
    \/ \E line \in QualityLines : AppendQualityLine(line)
    \/ ExtractQualityRequirements

SpecQuality == InitQuality /\ [][NextQuality]_vars

InitMustUse ==
    /\ must_use_tech = <<>>
    /\ cannot_use_tech = <<>>
    /\ template_defaults \in {defaults_of(FullDefaults), defaults_of(LanguageOnly(Absent))}
    /\ tech_result = NoResult
    /\ IdlePlan /\ IdlePhase /\ IdleSelect /\ IdleInput

NextMustUse ==
    \/ \E tech \in MustUseNames : AddMustUse(tech)
    \/ \E k \in 1..Len(CannotUseCatalogue) : AddCannotUse(k)
    \/ GenerateTechStack

SpecMustUse == InitMustUse /\ [][NextMustUse]_vars

InitUnique ==
    /\ dev_plan \in {GoodPlan(<<<<2>>>>), GoodPlan(<<<<1>>, <<1>>>>)}
    /\ plan_errors = NoResult
    /\ plan_is_valid = NoResult
    /\ IdleCore /\ IdleConvert /\ IdleField /\ IdleInfo /\ IdleMarkdown /\ IdleGenerate /\ IdleQuality

NextUnique ==
    \/ \E p \in PhaseIndexes, t \in TaskIndexes, s \in SubtaskIndexes :
           SetSubtaskId(p, t, s, GoodSubtaskId(1, 1, 1))
    \/ \E p \in PhaseIndexes, t \in TaskIndexes, s \in SubtaskIndexes, id \in PrerequisiteIds :
           SetPrerequisites(p, t, s, <<id>>)
    \/ \E p \in PhaseIndexes, t \in TaskIndexes, s \in SubtaskIndexes :
           SetStatus(p, t, s, BadStatus)
    \/ ValidatePlan
    \/ IsValidPlan

SpecUnique == InitUnique /\ [][NextUnique]_vars

=============================================================================
